---- MODULE Spec2Model ----
(***************************************************************************)
(* The record store adapter (useFirestore) and the relationship maintainer *)
(* of AppContent in src/vite.config.js: students, classes, attendance.     *)
(*                                                                         *)
(* A handler is an async function.  JavaScript runs it without interruption *)
(* from one await to the next, so one action of the model is one such      *)
(* stretch: the call up to the first awaited store write, then each        *)
(* resumption up to the next awaited write or the return.  The store is    *)
(* the remote Firestore; the adapter's `data` is the last snapshot pushed  *)
(* by onSnapshot, and a handler reads the `students` / `classes` of the    *)
(* render it was created in (its closure), not the store.  AppContent is   *)
(* mounted only once isAuthReady is set, which follows setDb (lines 3027,  *)
(* 3044, 3059), so its handlers always run with an initialised db.         *)
(***************************************************************************)
EXTENDS Integers, Sequences, FiniteSets, TLC

VARIABLES
    docs,       \* the store: collection name -> (document id -> stored fields)
    nextId,     \* collection name -> the next id addDoc hands out
    data,       \* useFirestore's `data`, per collection: the last snapshot
    loading,    \* useFirestore's `loading`, per collection
    error,      \* useFirestore's `error`, per collection (TRUE: an error is held)
    proc,       \* the handler invocations: slot -> invocation record
    calls,      \* handler invocations started so far
    faults,     \* writes the store has rejected for reasons of its own
    attendance, \* the attendance collection of the store: document id -> fields
    att,        \* the invocations of addAttendance, in the order of their calls,
                \* each with the time of its call
    db,         \* the store handle given to useFirestore (FALSE: null, not initialised)
    batch,      \* the invocation of handleSubmitAttendance
    props,      \* what ReportsPage is rendered with: payments, expenses, courses,
                \* students, classes, and its selectedClassIds; for exportToCsv
                \* alone, its rows and whether the browser has link.download
    report,     \* what the last render of ReportsPage computed
    modal,      \* the form modal that is open, with the state of its fields
    showConfirm,    \* AppContent's showConfirm: the confirmation dialog is open
    confirmAction,  \* AppContent's confirmAction: the action the dialog holds, or null
    userRole,       \* AppContent's userRole
    activeSection   \* AppContent's activeSection

\* the state of the pages, which no function of the store path sets
page == <<modal, showConfirm, confirmAction, userRole, activeSection>>

vars == <<docs, nextId, data, loading, error, proc, calls, faults, attendance, att, db, batch,
          props, report, modal, showConfirm, confirmAction, userRole, activeSection>>

----------------------------------------------------------------------------
(* Bounds of the model. *)

\* handler invocations in one run
MaxCalls == 2
\* writes the store rejects although the document exists
MaxFaults == 1
\* payments ReportsPage is rendered with
MaxPayments == 2
\* expenses ReportsPage is rendered with
MaxExpenses == 2

\* The slots of handler invocations; the caller of Spec awaits each handler
\* before it calls the next, so Spec fills one.
Slots == {"p"}

Colls == {"students", "classes"}
\* the instructors collection, which no modelled handler writes
Instructors == {1}
Names == {"n1", "n2"}

\* JavaScript's null; ids are positive, so 0 is also the one falsy id.
Null == 0

\* no form modal is open
NoModal == [kind |-> "none"]

\* confirmAction null
NoAction == [kind |-> "null"]

\* AppContent as mounted: useState('dashboard'), useState('admin'), useState(false),
\* useState(null); no modal of a page is open
InitPage ==
    /\ modal = NoModal
    /\ showConfirm = FALSE
    /\ confirmAction = NoAction
    /\ userRole = "admin"
    /\ activeSection = "dashboard"

\* Timestamp.now(): the clock of the model ticks with every handler call.
now == calls

----------------------------------------------------------------------------
(* Documents are functions from field names to values. *)

\* { ...a, ...b }: b's fields over a's
Spread(a, b) ==
    [f \in (DOMAIN a) \cup (DOMAIN b) |-> IF f \in DOMAIN b THEN b[f] ELSE a[f]]

\* f with x added or overwritten
Put(f, x, v) == [y \in (DOMAIN f) \cup {x} |-> IF y = x THEN v ELSE f[y]]

\* f without x
Drop(f, x) == [y \in (DOMAIN f) \ {x} |-> f[y]]

\* the stand-in for "no document" in a log entry
NoDoc == [none |-> TRUE]

DocOf(c, id) == IF id \in DOMAIN docs[c] THEN docs[c][id] ELSE NoDoc

\* snapshot.docs.map(doc => ({ id: doc.id, ...doc.data() }))
fetchedData(stored) == [i \in DOMAIN stored |-> Spread([id |-> i], stored[i])]

\* (cls.students || [])
studentsOf(cls) == IF "students" \in DOMAIN cls THEN cls.students ELSE <<>>

\* list.filter(id => id !== x)
RECURSIVE without(_, _)
without(list, x) ==
    IF list = <<>> THEN <<>>
    ELSE IF Head(list) = x THEN without(Tail(list), x)
         ELSE <<Head(list)>> \o without(Tail(list), x)

\* list.includes(x)
includes(list, x) == \E i \in 1..Len(list) : list[i] = x

\* the ids of S in the order of the snapshot (by document id)
RECURSIVE inOrder(_)
inOrder(S) ==
    IF S = {} THEN <<>>
    ELSE LET m == CHOOSE x \in S : \A y \in S : x <= y
         IN  <<m>> \o inOrder(S \ {m})

----------------------------------------------------------------------------
(* The adapter's three writes, as the requests they send to the store.     *)

\* addDoc(colRef, { ...newDoc, createdAt: Timestamp.now() })
addDocument(c, newDoc) ==
    [op |-> "add", coll |-> c, id |-> nextId[c],
     fields |-> Spread(newDoc, [createdAt |-> now])]

\* updateDocument, had it sent updatedData alone
updateDocumentUnstamped(c, id, updatedData) ==
    [op |-> "update", coll |-> c, id |-> id, fields |-> updatedData]

\* updateDoc(docRef, { ...updatedData, updatedAt: Timestamp.now() })
updateDocument(c, id, updatedData) ==
    [op |-> "update", coll |-> c, id |-> id,
     fields |-> Spread(updatedData, [updatedAt |-> now])]

\* deleteDoc(docRef)
deleteDocument(c, id) ==
    [op |-> "delete", coll |-> c, id |-> id, fields |-> NoDoc]

\* updateDoc rejects when the document does not exist; addDoc and deleteDoc
\* need no existing document.
Exists(req) == req.op = "update" => req.id \in DOMAIN docs[req.coll]

\* the collection after the store has applied the request
Applied(stored, req) ==
    CASE req.op = "add"    -> Put(stored, req.id, req.fields)
      [] req.op = "update" -> Put(stored, req.id, Spread(stored[req.id], req.fields))
      [] req.op = "delete" -> Drop(stored, req.id)

----------------------------------------------------------------------------
(* What an invocation leaves behind: its writes and its notices, in order. *)

\* a write handed to the store: ok says whether the store took it
Sent(req, ok) ==
    [ev |-> "write", op |-> req.op, coll |-> req.coll, id |-> req.id, ok |-> ok,
     before |-> DocOf(req.coll, req.id),
     after |-> IF ok /\ req.op # "delete" THEN Applied(docs[req.coll], req)[req.id]
               ELSE IF ok THEN NoDoc ELSE DocOf(req.coll, req.id)]

\* the awaited write has resolved (ok) or rejected
Settled(w) ==
    [ev |-> "settled", op |-> w.op, coll |-> w.coll, id |-> w.id, ok |-> w.ok,
     before |-> NoDoc, after |-> NoDoc]

\* addToast(message, type)
Toast(w, type) ==
    [ev |-> "toast", op |-> type, coll |-> w.coll, id |-> w.id, ok |-> w.ok,
     before |-> NoDoc, after |-> NoDoc]

Idle ==
    [kind |-> "idle", pc |-> "idle", id |-> Null, arg |-> NoDoc, old |-> Null,
     students |-> <<>>, classes |-> <<>>, todo |-> <<>>, log |-> <<>>]

InFlight(p) == proc[p].kind # "idle" /\ proc[p].pc # "done"

\* the write the invocation is awaiting
Awaited(p) == proc[p].log[Len(proc[p].log)]

----------------------------------------------------------------------------
(* The stretch of a handler between two awaits.                            *)

\* Resolve, had the catch not called setError
ResolveUnrecorded(p) ==
    LET w == Awaited(p)
    IN  [log |-> proc[p].log \o <<Settled(w), Toast(w, IF w.ok THEN "success" ELSE "error")>>,
         loading |-> [loading EXCEPT ![w.coll] = FALSE],
         error |-> error]

\* The awaited write has settled: addToast, setError in the catch, and
\* setLoading(false) in the finally of the adapter function.
Resolve(p) ==
    LET w == Awaited(p)
    IN  [log |-> proc[p].log \o <<Settled(w), Toast(w, IF w.ok THEN "success" ELSE "error")>>,
         loading |-> [loading EXCEPT ![w.coll] = FALSE],
         error |-> [error EXCEPT ![w.coll] = @ \/ ~w.ok]]

\* the adapter as a handler finds it when it is called
AtCall == [log |-> <<>>, loading |-> loading, error |-> error]

\* Invocation p, now r, hands req to the store and awaits it: past the test of
\* db, setLoading(true), then the write, which the store applies (ok) or rejects.
Issue(p, r, a, req, ok) ==
    /\ db
    /\ ok => Exists(req)
    /\ (~ok /\ Exists(req)) => faults < MaxFaults
    /\ docs' = [docs EXCEPT ![req.coll] = IF ok THEN Applied(@, req) ELSE @]
    /\ nextId' = [nextId EXCEPT ![req.coll] = IF ok /\ req.op = "add" THEN @ + 1 ELSE @]
    /\ faults' = IF ~ok /\ Exists(req) THEN faults + 1 ELSE faults
    /\ loading' = [a.loading EXCEPT ![req.coll] = TRUE]
    /\ error' = a.error
    /\ proc' = [proc EXCEPT ![p] = [r EXCEPT !.log = Append(a.log, Sent(req, ok))]]
    /\ UNCHANGED <<attendance, att, db, props, report, batch>>

\* Invocation p, now r, returns to its caller; its closure is dropped.
Finish(p, r, a) ==
    /\ loading' = a.loading
    /\ error' = a.error
    /\ proc' = [proc EXCEPT ![p] = [r EXCEPT !.log = a.log, !.pc = "done",
                                              !.students = <<>>, !.classes = <<>>]]
    /\ UNCHANGED <<docs, nextId, faults, attendance, att, db, props, report, batch>>

\* A handler can be called when its slot holds none in flight; the record of a
\* returned invocation stays until the slot is taken again.
CanCall(p) ==
    /\ calls < MaxCalls
    /\ ~InFlight(p)

\* The invocation record of a call: the closure holds the students and classes
\* of the current render.
Begin(p, kind, pc, id, arg) ==
    [kind |-> kind, pc |-> pc, id |-> id, arg |-> arg, old |-> Null,
     students |-> data.students, classes |-> data.classes, todo |-> <<>>,
     log |-> <<>>]

\* Unavailable, had setLoading(true) come before the test of db
UnavailableAfterLoading(p, r, req) ==
    /\ ~db
    /\ proc' = [proc EXCEPT ![p] = [r EXCEPT !.pc = "done", !.students = <<>>,
                                              !.classes = <<>>, !.log = <<>>]]
    /\ loading' = [loading EXCEPT ![req.coll] = TRUE]
    /\ UNCHANGED <<docs, nextId, error, faults, attendance, att, db, props, report, batch>>

\* if (!db) { addToast("...", "error"); return; }
Unavailable(p, r, req) ==
    /\ ~db
    /\ proc' = [proc EXCEPT ![p] =
                  [r EXCEPT !.pc = "done", !.students = <<>>, !.classes = <<>>,
                            !.log = <<Toast([coll |-> req.coll, id |-> req.id, ok |-> FALSE],
                                            "error")>>]]
    /\ UNCHANGED <<docs, nextId, loading, error, faults, attendance, att, db, props, report, batch>>

\* A component calls one function of the adapter: the test of db, then the write.
Adapter(p, req, arg) ==
    /\ CanCall(p)
    /\ LET r == Begin(p, req.op, "write", req.id, arg)
       IN  \/ \E ok \in BOOLEAN : Issue(p, r, AtCall, req, ok)
           \/ Unavailable(p, r, req)
    /\ calls' = calls + 1
    /\ UNCHANGED data

\* the awaited write of the adapter function has settled: it returns
AdapterDone(p) ==
    /\ proc[p].kind \in {"add", "update", "delete"} /\ proc[p].pc = "write"
    /\ Finish(p, proc[p], Resolve(p))
    /\ UNCHANGED <<data, calls, page>>

----------------------------------------------------------------------------
(* addStudent *)

\* const studentId = await addStudentDoc(newStudent);
addStudent(p, newStudent) ==
    /\ CanCall(p)
    /\ \E ok \in BOOLEAN :
         Issue(p, Begin(p, "addStudent", "student", Null, newStudent),
               AtCall, addDocument("students", newStudent), ok)
    /\ calls' = calls + 1
    /\ UNCHANGED data

\* addStudentClassDoc, had it written the list back without the new id
addStudentClassDocUnappended(r, studentId) ==
    updateDocument("classes", r.arg.classId,
                   [students |-> studentsOf(r.classes[r.arg.classId])])

\* the class write of addStudent: [...(currentClass.students || []), studentId]
addStudentClassDoc(r, studentId) ==
    updateDocument("classes", r.arg.classId,
                   [students |-> Append(studentsOf(r.classes[r.arg.classId]), studentId)])

\* if (studentId && newStudent.classId) { const currentClass = classes.find(...); if (currentClass) ...
addStudentAdded(p) ==
    /\ proc[p].kind = "addStudent" /\ proc[p].pc = "student"
    /\ LET w == Awaited(p)
           studentId == IF w.ok THEN w.id ELSE Null
           r == [proc[p] EXCEPT !.id = studentId, !.pc = "class"]
       IN  IF studentId # Null /\ r.arg.classId # Null /\ r.arg.classId \in DOMAIN r.classes
           THEN \E ok \in BOOLEAN :
                  Issue(p, r, Resolve(p), addStudentClassDoc(r, studentId), ok)
           ELSE Finish(p, r, Resolve(p))
    /\ UNCHANGED <<data, calls, page>>

\* the last awaited write of a handler has settled: the handler returns
Returned(p, kind, pc) ==
    /\ proc[p].kind = kind /\ proc[p].pc = pc
    /\ Finish(p, proc[p], Resolve(p))
    /\ UNCHANGED <<data, calls, page>>

addStudentDone(p) == Returned(p, "addStudent", "class")

----------------------------------------------------------------------------
(* updateStudent *)

\* const oldClassId = oldStudent ? oldStudent.classId : null;
classIdIn(students, studentId) ==
    IF studentId \in DOMAIN students /\ "classId" \in DOMAIN students[studentId]
    THEN students[studentId].classId ELSE Null

\* const oldStudent = students.find(s => s.id === studentId); const oldClassId = ...;
\* await updateStudentDoc(studentId, updatedData);
updateStudent(p, studentId, updatedData) ==
    /\ CanCall(p)
    /\ \E ok \in BOOLEAN :
         Issue(p, [Begin(p, "updateStudent", "student", studentId, updatedData)
                     EXCEPT !.old = classIdIn(data.students, studentId)],
               AtCall, updateDocument("students", studentId, updatedData), ok)
    /\ calls' = calls + 1
    /\ UNCHANGED <<data, page>>

\* removeFromClassDoc, had the filter kept every id
removeFromClassDocUnfiltered(r, classId) ==
    updateDocument("classes", classId, [students |-> studentsOf(r.classes[classId])])

\* (oldClass.students || []).filter(id => id !== studentId)
removeFromClassDoc(r, classId) ==
    updateDocument("classes", classId,
                   [students |-> without(studentsOf(r.classes[classId]), r.id)])

\* [...(newClass.students || []), studentId]
addToClassDoc(r, classId) ==
    updateDocument("classes", classId,
                   [students |-> Append(studentsOf(r.classes[classId]), r.id)])

\* // Add to new class
updateStudentAddToNew(p, a) ==
    LET r == [proc[p] EXCEPT !.pc = "new"]
        newClassId == r.arg.classId
    IN  IF newClassId # Null /\ newClassId \in DOMAIN r.classes
        THEN \E ok \in BOOLEAN : Issue(p, r, a, addToClassDoc(r, newClassId), ok)
        ELSE Finish(p, r, a)

\* updateStudentUpdated, had it not compared oldClassId with newClassId
updateStudentUpdatedUncompared(p) ==
    /\ proc[p].kind = "updateStudent" /\ proc[p].pc = "student"
    /\ LET r == [proc[p] EXCEPT !.pc = "old"]
           oldClassId == r.old
       IN  IF oldClassId # Null /\ oldClassId \in DOMAIN r.classes
           THEN \E ok \in BOOLEAN :
                  Issue(p, r, Resolve(p), removeFromClassDoc(r, oldClassId), ok)
           ELSE updateStudentAddToNew(p, Resolve(p))
    /\ UNCHANGED <<data, calls, page>>

\* if (oldClassId !== newClassId) { // Remove from old class ...
updateStudentUpdated(p) ==
    /\ proc[p].kind = "updateStudent" /\ proc[p].pc = "student"
    /\ LET r == [proc[p] EXCEPT !.pc = "old"]
           oldClassId == r.old
           newClassId == r.arg.classId
       IN  IF oldClassId = newClassId THEN Finish(p, r, Resolve(p))
           ELSE IF oldClassId # Null /\ oldClassId \in DOMAIN r.classes
                THEN \E ok \in BOOLEAN :
                       Issue(p, r, Resolve(p), removeFromClassDoc(r, oldClassId), ok)
                ELSE updateStudentAddToNew(p, Resolve(p))
    /\ UNCHANGED <<data, calls, page>>

\* updateStudentRemoved, had a rejected removal ended the handler
updateStudentRemovedOrThrown(p) ==
    /\ proc[p].kind = "updateStudent" /\ proc[p].pc = "old"
    /\ IF Awaited(p).ok THEN updateStudentAddToNew(p, Resolve(p))
       ELSE Finish(p, proc[p], Resolve(p))
    /\ UNCHANGED <<data, calls, page>>

updateStudentRemoved(p) ==
    /\ proc[p].kind = "updateStudent" /\ proc[p].pc = "old"
    /\ updateStudentAddToNew(p, Resolve(p))
    /\ UNCHANGED <<data, calls, page>>

updateStudentDone(p) == Returned(p, "updateStudent", "new")

----------------------------------------------------------------------------
(* deleteStudent *)

\* const classIdOfStudent = studentToDelete ? studentToDelete.classId : null;
\* await deleteStudentDoc(studentId);
deleteStudent(p, studentId) ==
    /\ CanCall(p)
    /\ \E ok \in BOOLEAN :
         Issue(p, [Begin(p, "deleteStudent", "student", studentId, NoDoc)
                     EXCEPT !.old = classIdIn(data.students, studentId)],
               AtCall, deleteDocument("students", studentId), ok)
    /\ calls' = calls + 1
    /\ UNCHANGED data

\* deleteStudentDeleted, had it left the class alone
deleteStudentDeletedOnly(p) ==
    /\ proc[p].kind = "deleteStudent" /\ proc[p].pc = "student"
    /\ Finish(p, [proc[p] EXCEPT !.pc = "class"], Resolve(p))
    /\ UNCHANGED <<data, calls, page>>

\* if (classIdOfStudent) { const currentClass = classes.find(...); if (currentClass) ...
deleteStudentDeleted(p) ==
    /\ proc[p].kind = "deleteStudent" /\ proc[p].pc = "student"
    /\ LET r == [proc[p] EXCEPT !.pc = "class"]
           classIdOfStudent == r.old
       IN  IF classIdOfStudent # Null /\ classIdOfStudent \in DOMAIN r.classes
           THEN \E ok \in BOOLEAN :
                  Issue(p, r, Resolve(p), removeFromClassDoc(r, classIdOfStudent), ok)
           ELSE Finish(p, r, Resolve(p))
    /\ UNCHANGED <<data, calls, page>>

deleteStudentDone(p) == Returned(p, "deleteStudent", "class")

----------------------------------------------------------------------------
(* updateClass through the two assignment modals, deleteClass *)

\* handleCheckboxChange: prevSelected.includes(id) ? prevSelected.filter(x => x !== id)
\*                                                  : [...prevSelected, id]
handleCheckboxChange(prevSelected, id) ==
    IF includes(prevSelected, id) THEN without(prevSelected, id)
    ELSE Append(prevSelected, id)

\* the list after the boxes in `ticks` were clicked, one after another
RECURSIVE selectedAfter(_, _)
selectedAfter(selected, ticks) ==
    IF ticks = <<>> THEN selected
    ELSE selectedAfter(handleCheckboxChange(selected, Head(ticks)), Tail(ticks))

\* updateClass, had it sent both lists of the class, the unnamed one empty
updateClassBothLists(p, kind, classId, updatedData) ==
    /\ CanCall(p)
    /\ \E ok \in BOOLEAN :
         Issue(p, Begin(p, kind, "class", classId, updatedData), AtCall,
               updateDocument("classes", classId,
                              Spread([students |-> <<>>, instructors |-> <<>>], updatedData)),
               ok)
    /\ calls' = calls + 1
    /\ UNCHANGED <<data, page>>

\* const updateClass = async (classId, updatedData) => { await updateClassDoc(classId, updatedData); }
updateClass(p, kind, classId, updatedData) ==
    /\ CanCall(p)
    /\ \E ok \in BOOLEAN :
         Issue(p, Begin(p, kind, "class", classId, updatedData), AtCall,
               updateDocument("classes", classId, updatedData), ok)
    /\ calls' = calls + 1
    /\ UNCHANGED <<data, page>>

\* AssignStudentsToClassModal: useState(cls.students || []), the boxes clicked,
\* then onUpdateClass(cls.id, { students: selectedStudentIds })
assignStudentsToClass(p, classId, ticks) ==
    updateClass(p, "assignStudentsToClass", classId,
                [students |-> selectedAfter(studentsOf(data.classes[classId]), ticks)])

\* (cls.instructors || [])
instructorsOf(cls) == IF "instructors" \in DOMAIN cls THEN cls.instructors ELSE <<>>

\* AssignInstructorsToClassModal: onUpdateClass(cls.id, { instructors: selectedInstructorIds })
assignInstructorsToClass(p, classId, ticks) ==
    updateClass(p, "assignInstructorsToClass", classId,
                [instructors |-> selectedAfter(instructorsOf(data.classes[classId]), ticks)])

assignStudentsDone(p) == Returned(p, "assignStudentsToClass", "class")

assignInstructorsDone(p) == Returned(p, "assignInstructorsToClass", "class")

\* students.filter(s => s.classId === classId), in the order of the snapshot
studentsInClass(students, classId) ==
    inOrder({i \in DOMAIN students : classIdIn(students, i) = classId})

\* await updateStudentDoc(student.id, { ...student, classId: null });
unassignDoc(r, studentId) ==
    updateDocument("students", studentId, Spread(r.students[studentId], [classId |-> Null]))

\* One turn of the for loop, or, the loop over, await deleteClassDoc(classId).
deleteClassNext(p, r, a) ==
    IF r.todo # <<>>
    THEN \E ok \in BOOLEAN :
           Issue(p, [r EXCEPT !.pc = "student", !.todo = Tail(r.todo)], a,
                 unassignDoc(r, Head(r.todo)), ok)
    ELSE \E ok \in BOOLEAN :
           Issue(p, [r EXCEPT !.pc = "class"], a,
                 deleteDocument("classes", r.id), ok)

deleteClass(p, classId) ==
    /\ CanCall(p)
    /\ deleteClassNext(p,
                       [Begin(p, "deleteClass", "student", classId, NoDoc)
                          EXCEPT !.todo = studentsInClass(data.students, classId)],
                       AtCall)
    /\ calls' = calls + 1
    /\ UNCHANGED data

\* deleteClassUnassigned, had the loop not awaited its write
deleteClassUnassignedUnawaited(p) ==
    /\ proc[p].kind = "deleteClass" /\ proc[p].pc = "student"
    /\ deleteClassNext(p, proc[p], [log |-> proc[p].log, loading |-> loading, error |-> error])
    /\ UNCHANGED <<data, calls, page>>

\* the awaited updateStudentDoc has settled: the next turn of the loop, or the deletion
deleteClassUnassigned(p) ==
    /\ proc[p].kind = "deleteClass" /\ proc[p].pc = "student"
    /\ deleteClassNext(p, proc[p], Resolve(p))
    /\ UNCHANGED <<data, calls, page>>

deleteClassDone(p) == Returned(p, "deleteClass", "class")

----------------------------------------------------------------------------
(* addAttendance *)

Days == {1, 2}
\* new Date("YYYY-MM-DD") is midnight UTC of that day
Hours == {0}
Statuses == {"present", "absent"}

\* a JavaScript Date, as its UTC day and the hour of that day
Dates == [day : Days, hour : Hours]

\* The id of a document is a string; the documents of students, classes and
\* instructors are numbered here, and this is the string of document number id,
\* a sequence of characters.
idText(id) == <<<<"0", "1", "2", "3", "4", "5", "6", "7", "8", "9">>[id + 1]>>

\* date.toISOString().split('T')[0]: the day of the date, its hour dropped
isoDay(date) == <<"2", "0", "2", "4", "-", "0", "1", "-", "0">> \o idText(date.day)

\* attendanceDocId, had the status been part of the id
attendanceDocIdPerStatus(rec) ==
    rec.studentId \o <<"-">> \o rec.classId \o <<"-">>
        \o rec.instructorId \o <<"-">> \o isoDay(rec.date)
        \o <<"-", rec.status>>

\* `${studentId}-${classId}-${instructorId}-${date.toISOString().split('T')[0]}`
attendanceDocId(rec) ==
    rec.studentId \o <<"-">> \o rec.classId \o <<"-">>
        \o rec.instructorId \o <<"-">> \o isoDay(rec.date)

\* { ...newAttendanceRecord, date: Timestamp.fromDate(date), createdAt: Timestamp.now(),
\*   updatedAt: Timestamp.now() }
attendanceFields(rec) ==
    Spread(rec, [date |-> rec.date, createdAt |-> now, updatedAt |-> now])

\* setDoc(ref, fields, { merge: true }): the fields over those of the document, if any
setDocMerge(stored, id, fields) ==
    Put(stored, id, IF id \in DOMAIN stored THEN Spread(stored[id], fields) ELSE fields)

\* await setDoc(attendanceDocRef, {...}, { merge: true });
addAttendance(newAttendanceRecord) ==
    /\ calls < MaxCalls
    /\ \E ok \in BOOLEAN :
         /\ ~ok => faults < MaxFaults
         /\ faults' = IF ok THEN faults ELSE faults + 1
         /\ attendance' = IF ok THEN setDocMerge(attendance,
                                                attendanceDocId(newAttendanceRecord),
                                                attendanceFields(newAttendanceRecord))
                         ELSE attendance
         /\ att' = Append(att, [rec |-> newAttendanceRecord,
                                id |-> attendanceDocId(newAttendanceRecord),
                                ok |-> ok, pc |-> "setDoc", toast |-> "none",
                                at |-> now])
    /\ calls' = calls + 1
    /\ UNCHANGED <<docs, nextId, data, loading, error, proc, db, props, report, batch, page>>

\* no handleSubmitAttendance has been called
NoBatch == [pc |-> "idle", members |-> {}, toast |-> "none"]

\* addAttendanceSaved, had the catch sent the record again
addAttendanceSavedAndResent(i) ==
    /\ att[i].pc = "setDoc"
    /\ att' = IF att[i].ok
              THEN [att EXCEPT ![i] = [@ EXCEPT !.pc = "done", !.toast = "success"]]
              ELSE Append([att EXCEPT ![i] = [@ EXCEPT !.pc = "done", !.toast = "error"]],
                          [att[i] EXCEPT !.ok = TRUE])
    /\ attendance' = IF att[i].ok THEN attendance
                     ELSE setDocMerge(attendance, att[i].id, attendanceFields(att[i].rec))
    /\ UNCHANGED <<docs, nextId, data, loading, error, proc, calls, faults, db, props, report, batch, page>>

\* the setDoc has settled: addToast(..., "success"), or in the catch, addToast(..., "error")
addAttendanceSaved(i) ==
    /\ att[i].pc = "setDoc"
    /\ att' = [att EXCEPT ![i] = [@ EXCEPT !.pc = "done",
                                          !.toast = IF att[i].ok THEN "success" ELSE "error"]]
    /\ UNCHANGED <<docs, nextId, data, loading, error, proc, calls, faults, attendance, db, props, report, batch, page>>

\* The promise of an addAttendance call: the catch of addAttendance takes the
\* rejection of setDoc and does not rethrow, so the promise is fulfilled
\* whether the store took the write or not.
promiseOf(a) == IF a.pc = "done" THEN "fulfilled" ELSE "pending"

\* the attendance collection after the setDoc calls of the records, in order
RECURSIVE savedAll(_, _, _)
savedAll(stored, recs, oks) ==
    IF recs = <<>> THEN stored
    ELSE savedAll(IF Head(oks)
                  THEN setDocMerge(stored, attendanceDocId(Head(recs)),
                                   attendanceFields(Head(recs)))
                  ELSE stored,
                  Tail(recs), Tail(oks))

\* classStudents: students.filter(s => currentClass.students.includes(s.id))
classStudents(classId) ==
    {i \in DOMAIN data.students : includes(studentsOf(data.classes[classId]), i)}

\* selectedDate cleared: ''
NoDate == [day |-> 0, hour |-> 0]

\* handleSubmitAttendance: with the class, the instructor or the date unset an
\* error notice and return; with no status recorded an info notice and return;
\* else one record for each student of attendanceStatuses,
\* and attendanceRecordsToSave.map(record => addAttendance(record)): each call
\* runs to its await setDoc, so the writes are all issued before any settles.
handleSubmitAttendance(selectedClassId, selectedInstructorId, selectedDate, attendanceStatuses) ==
    /\ batch.pc = "idle"
    /\ IF selectedClassId = Null \/ selectedInstructorId = Null \/ selectedDate = NoDate
       THEN /\ batch' = [pc |-> "returned", members |-> {}, toast |-> "error"]
            /\ UNCHANGED <<calls, faults, attendance, att>>
       ELSE IF DOMAIN attendanceStatuses = {}
       THEN /\ batch' = [pc |-> "returned", members |-> {}, toast |-> "info"]
            /\ UNCHANGED <<calls, faults, attendance, att>>
       ELSE
         /\ calls < MaxCalls
         /\ LET ids == inOrder(DOMAIN attendanceStatuses)
                recs == [k \in 1..Len(ids) |->
                           [studentId |-> idText(ids[k]), classId |-> idText(selectedClassId),
                            instructorId |-> idText(selectedInstructorId),
                            date |-> selectedDate,
                            status |-> attendanceStatuses[ids[k]]]]
            IN  \E oks \in [1..Len(ids) -> BOOLEAN] :
                   LET rejected == Cardinality({k \in 1..Len(ids) : ~oks[k]})
                   IN  /\ faults + rejected <= MaxFaults
                       /\ faults' = faults + rejected
                       /\ attendance' = savedAll(attendance, recs, oks)
                       /\ att' = att \o [k \in 1..Len(ids) |->
                                           [rec |-> recs[k], id |-> attendanceDocId(recs[k]),
                                            ok |-> oks[k], pc |-> "setDoc", toast |-> "none",
                                            at |-> now]]
                       /\ batch' = [pc |-> "all",
                                    members |-> (Len(att) + 1)..(Len(att) + Len(ids)),
                                    toast |-> "none"]
         /\ calls' = calls + 1
    /\ UNCHANGED <<docs, nextId, data, loading, error, proc, db, props, report, page>>

\* await Promise.all(...) settles when every promise has: fulfilled, the success
\* notice of the try; rejected, the error notice of the catch.
handleSubmitAttendanceDone ==
    /\ batch.pc = "all"
    /\ \A i \in batch.members : promiseOf(att[i]) # "pending"
    /\ batch' = [batch EXCEPT !.pc = "done",
                              !.toast = IF \A i \in batch.members : promiseOf(att[i]) = "fulfilled"
                                        THEN "success" ELSE "error"]
    /\ UNCHANGED <<docs, nextId, data, loading, error, proc, calls, faults, attendance,
                   att, db, props, report, page>>

----------------------------------------------------------------------------
(* ReportsPage: the figures of a render *)

\* ReportsPage not mounted
NoProps ==
    [payments |-> <<>>, expenses |-> <<>>, courses |-> <<>>,
     students |-> <<>>, classes |-> <<>>, selectedClassIds |-> <<>>]
NoReport == [pc |-> "none"]

\* expense.category || 'غير مصنف': the bucket of an expense with no category
Uncategorized == "uncategorized"

\* array.reduce((sum, x) => sum + x.amount, 0), from the left
RECURSIVE reduceAmount(_, _)
reduceAmount(sum, array) ==
    IF array = <<>> THEN sum
    ELSE reduceAmount(sum + Head(array).amount, Tail(array))

\* const totalRevenue = payments.reduce((sum, payment) => sum + payment.amount, 0)
totalRevenue(payments) == reduceAmount(0, payments)

\* const totalExpenses = expenses.reduce((sum, expense) => sum + expense.amount, 0)
totalExpenses(expenses) == reduceAmount(0, expenses)

\* netIncome, had it added the expenses
netIncomeAdded(payments, expenses) == totalRevenue(payments) + totalExpenses(expenses)

\* const netIncome = totalRevenue - totalExpenses
netIncome(payments, expenses) == totalRevenue(payments) - totalExpenses(expenses)

\* acc[key] = (acc[key] || 0) + amount
Accumulate(acc, key, amount) ==
    [k \in DOMAIN acc \cup {key} |->
        IF k = key THEN (IF key \in DOMAIN acc THEN acc[key] ELSE 0) + amount
        ELSE acc[k]]

\* expenses.reduce((acc, expense) => { const category = expense.category || 'غير مصنف';
\*   acc[category] = (acc[category] || 0) + expense.amount; return acc; }, {})
RECURSIVE expensesByCategoryFrom(_, _)
expensesByCategoryFrom(acc, expenses) ==
    IF expenses = <<>> THEN acc
    ELSE LET expense == Head(expenses)
             category == IF expense.category # "" THEN expense.category ELSE Uncategorized
         IN  expensesByCategoryFrom(Accumulate(acc, category, expense.amount), Tail(expenses))

expensesByCategory(expenses) == expensesByCategoryFrom(<<>>, expenses)

\* courses.find(c => c.id === payment.courseId): the place of the first such course, or 0
find(courses, courseId) ==
    IF \E k \in DOMAIN courses : courses[k].id = courseId
    THEN CHOOSE k \in DOMAIN courses :
            /\ courses[k].id = courseId
            /\ \A j \in 1..(k - 1) : courses[j].id # courseId
    ELSE 0

\* revenueByCourse, had a payment whose course is not found gone under its courseId
RECURSIVE revenueByCourseKeptFrom(_, _, _)
revenueByCourseKeptFrom(acc, payments, courses) ==
    IF payments = <<>> THEN acc
    ELSE LET payment == Head(payments)
             k == find(courses, payment.courseId)
         IN  revenueByCourseKeptFrom(
                 IF payment.courseId # Null
                 THEN Accumulate(acc, IF k # 0 THEN courses[k].name ELSE "?", payment.amount)
                 ELSE acc,
                 Tail(payments), courses)

revenueByCourseKept(payments, courses) == revenueByCourseKeptFrom(<<>>, payments, courses)

\* payments.reduce((acc, payment) => { if (payment.courseId) { const course = courses.find(...);
\*   if (course) acc[course.name] = (acc[course.name] || 0) + payment.amount; } return acc; }, {})
RECURSIVE revenueByCourseFrom(_, _, _)
revenueByCourseFrom(acc, payments, courses) ==
    IF payments = <<>> THEN acc
    ELSE LET payment == Head(payments)
             k == find(courses, payment.courseId)
         IN  revenueByCourseFrom(
                 IF payment.courseId # Null /\ k # 0
                 THEN Accumulate(acc, courses[k].name, payment.amount)
                 ELSE acc,
                 Tail(payments), courses)

revenueByCourse(payments, courses) == revenueByCourseFrom(<<>>, payments, courses)

\* A render of ReportsPage with the payments, expenses and courses it is given.
ReportsPage ==
    /\ report.pc = "none"
    /\ report' = [pc |-> "rendered",
                  totalRevenue |-> totalRevenue(props.payments),
                  totalExpenses |-> totalExpenses(props.expenses),
                  netIncome |-> netIncome(props.payments, props.expenses),
                  expensesByCategory |-> expensesByCategory(props.expenses),
                  revenueByCourse |-> revenueByCourse(props.payments, props.courses)]
    /\ UNCHANGED <<docs, nextId, data, loading, error, proc, calls, faults, attendance, att,
                   db, batch, props, page>>

----------------------------------------------------------------------------
(* ReportsPage: the export of the students of the selected classes *)

\* array.find(x => x.id === id): the place of the first such member, or 0
findById(array, id) ==
    IF \E k \in DOMAIN array : array[k].id = id
    THEN CHOOSE k \in DOMAIN array :
            /\ array[k].id = id
            /\ \A j \in 1..(k - 1) : array[j].id # id
    ELSE 0

\* nothing exported yet: exportedStudents = new Set(), dataToExport = []
NoExport == [exportedStudents |-> {}, dataToExport |-> <<>>]

\* the body of the inner forEach, had it not asked exportedStudents
exportStudentUnasked(acc, selectedClass, studentId) ==
    LET k == findById(props.students, studentId)
    IN  IF k # 0
        THEN [exportedStudents |-> acc.exportedStudents \cup {studentId},
              dataToExport |-> Append(acc.dataToExport,
                                      [name |-> props.students[k].name,
                                       class |-> selectedClass.name,
                                       of |-> studentId])]
        ELSE acc

\* The body of the inner forEach: if (!exportedStudents.has(studentId)) { const student =
\* students.find(...); if (student) { dataToExport.push(...); exportedStudents.add(studentId) } }
\* A row carries the student's fields and the class's name; `of` notes the
\* student it was pushed for.
exportStudent(acc, selectedClass, studentId) ==
    LET k == findById(props.students, studentId)
    IN  IF studentId \notin acc.exportedStudents /\ k # 0
        THEN [exportedStudents |-> acc.exportedStudents \cup {studentId},
              dataToExport |-> Append(acc.dataToExport,
                                      [name |-> props.students[k].name,
                                       class |-> selectedClass.name,
                                       of |-> studentId])]
        ELSE acc

\* selectedClass.students.forEach(studentId => ...)
RECURSIVE exportClass(_, _, _)
exportClass(acc, selectedClass, studentIds) ==
    IF studentIds = <<>> THEN acc
    ELSE exportClass(exportStudent(acc, selectedClass, Head(studentIds)),
                     selectedClass, Tail(studentIds))

\* selectedClassIds.forEach(classId => { const selectedClass = classes.find(...);
\*   if (selectedClass && selectedClass.students) ... })
RECURSIVE exportClasses(_, _)
exportClasses(acc, classIds) ==
    IF classIds = <<>> THEN acc
    ELSE LET k == findById(props.classes, Head(classIds))
         IN  exportClasses(IF k # 0
                           THEN exportClass(acc, props.classes[k], props.classes[k].students)
                           ELSE acc,
                           Tail(classIds))

\* handleExportStudentsByClass: with no class selected an info notice; with no
\* row an info notice; else exportToCsv of the rows.
handleExportStudentsByClass ==
    /\ report.pc = "none"
    /\ report' =
         IF props.selectedClassIds = <<>>
         THEN [pc |-> "exported", dataToExport |-> <<>>, toast |-> "info", file |-> FALSE]
         ELSE LET dataToExport == exportClasses(NoExport, props.selectedClassIds).dataToExport
              IN  [pc |-> "exported", dataToExport |-> dataToExport,
                   toast |-> IF dataToExport # <<>> THEN "success" ELSE "info",
                   file |-> dataToExport # <<>>]
    /\ UNCHANGED <<docs, nextId, data, loading, error, proc, calls, faults, attendance, att,
                   db, batch, props, page>>

----------------------------------------------------------------------------
(* The form modals: validateForm and handleSubmit.  A text is a sequence of *)
(* characters.                                                              *)

Digit == <<"0", "1", "2", "3", "4", "5", "6", "7", "8", "9">>
isDigit(ch) == \E d \in DOMAIN Digit : Digit[d] = ch
digitOf(ch) == (CHOOSE d \in DOMAIN Digit : Digit[d] = ch) - 1
\* \s
isSpace(ch) == ch \in {" ", "\n"}

\* the part of a text from place i to place j
slice(text, i, j) == [k \in 1..(j - i + 1) |-> text[i + k - 1]]

\* text.trim()
RECURSIVE trimStart(_)
trimStart(text) ==
    IF text # <<>> /\ isSpace(Head(text)) THEN trimStart(Tail(text)) ELSE text

RECURSIVE trimEnd(_)
trimEnd(text) ==
    IF text # <<>> /\ isSpace(text[Len(text)])
    THEN trimEnd(slice(text, 1, Len(text) - 1)) ELSE text

trim(text) == trimEnd(trimStart(text))

\* /^\d{10,}$/.test(phone)
phoneTest(phone) == Len(phone) >= 10 /\ \A k \in DOMAIN phone : isDigit(phone[k])

\* [^\s@]+ matches the whole of the text
plain(text) == text # <<>> /\ \A k \in DOMAIN text : ~isSpace(text[k]) /\ text[k] # "@"

\* /^[^\s@]+@[^\s@]+\.[^\s@]+$/.test(email): some "@" and some later "." split
\* the text into three parts that [^\s@]+ matches
emailTest(email) ==
    \E i, j \in DOMAIN email :
        /\ i < j
        /\ email[i] = "@" /\ email[j] = "."
        /\ plain(slice(email, 1, i - 1))
        /\ plain(slice(email, i + 1, j - 1))
        /\ plain(slice(email, j + 1, Len(email)))

\* the number the leading digits of a text spell, after the digits read so far
RECURSIVE digits(_, _)
digits(read, text) ==
    IF text # <<>> /\ isDigit(Head(text))
    THEN digits([any |-> TRUE, value |-> 10 * read.value + digitOf(Head(text))], Tail(text))
    ELSE read

\* parseFloat(text) of a text without a point or an exponent: leading white
\* space is skipped, a sign is taken, then the digits up to the first other
\* character; NaN with no digit there.
parseFloat(text) ==
    LET t == trimStart(text)
        negative == t # <<>> /\ Head(t) = "-"
        signed == t # <<>> /\ Head(t) \in {"-", "+"}
        read == digits([any |-> FALSE, value |-> 0], IF signed THEN Tail(t) ELSE t)
    IN  [nan |-> ~read.any, value |-> IF negative THEN 0 - read.value ELSE read.value]

isNaN(x) == x.nan

\* amountError, had it asked only for a number
amountErrorAnyNumber(amount) == amount = <<>> \/ isNaN(parseFloat(amount))

\* !amount || isNaN(parseFloat(amount)) || parseFloat(amount) <= 0
amountError(amount) ==
    amount = <<>> \/ isNaN(parseFloat(amount)) \/ parseFloat(amount).value <= 0

\* the keys of the errors under a condition
errorIf(key, cond) == IF cond THEN {key} ELSE {}

\* validateForm of AddStudentModal (lines 368-377), of AddPaymentModal (986-993),
\* of AddExpenseModal (1516-1523) and of AddCourseModal (1327-1333): the keys of
\* newErrors
validateForm(m) ==
    IF m.kind = "student"
    THEN errorIf("name", trim(m.name) = <<>>)
         \cup errorIf("phone", trim(m.phone) = <<>> \/ ~phoneTest(m.phone))
         \cup errorIf("email", m.email # <<>> /\ ~emailTest(m.email))
         \cup errorIf("class", m.selectedClassId = Null)
    ELSE IF m.kind = "payment"
    THEN errorIf("student", m.studentId = Null)
         \cup errorIf("amount", amountError(m.amount))
         \cup errorIf("date", ~m.date)
    ELSE IF m.kind = "expense"
    THEN errorIf("description", trim(m.name) = <<>>)
         \cup errorIf("amount", amountError(m.amount))
         \cup errorIf("date", ~m.date)
    ELSE errorIf("name", trim(m.name) = <<>>)
         \cup errorIf("price", amountError(m.amount))

\* the collection the modal's record goes to
collOf(m) ==
    IF m.kind = "payment" THEN "payments"
    ELSE IF m.kind = "expense" THEN "expenses" ELSE "courses"

\* what handleSubmit hands to onAddPayment, onAddExpense or onAddCourse
recordOf(m) ==
    IF m.kind = "payment"
    THEN [studentId |-> m.studentId, amount |-> parseFloat(m.amount).value]
    ELSE [name |-> m.name, amount |-> parseFloat(m.amount).value]

\* handleSubmit of a form modal: if (!validateForm()) { addToast(..., "error"); return; }
\* await onAdd...({ ... });  addStudent runs to its first await within the call,
\* and addPayment, addExpense and addCourse are calls of addDocument.
handleSubmit(p) ==
    /\ modal.kind \in {"student", "payment", "expense", "course"}
    /\ modal.pc = "open"
    /\ IF validateForm(modal) # {}
       THEN /\ modal' = [modal EXCEPT !.errors = validateForm(modal), !.toast = "error"]
            /\ modal' # modal
            /\ UNCHANGED <<docs, nextId, data, loading, error, proc, calls, faults,
                           attendance, att, db, batch, props, report>>
       ELSE /\ modal' = [modal EXCEPT !.pc = "awaiting", !.errors = {}]
            /\ IF modal.kind = "student"
               THEN addStudent(p, [name |-> modal.name, phone |-> modal.phone,
                                   email |-> modal.email, classId |-> modal.selectedClassId])
               ELSE Adapter(p, addDocument(collOf(modal), recordOf(modal)), recordOf(modal))
    /\ UNCHANGED <<showConfirm, confirmAction, userRole, activeSection>>

\* handleSubmit resumed after its await: onClose()
handleSubmitClosed(p) ==
    /\ modal.kind # "none" /\ modal.pc = "awaiting"
    /\ proc[p].pc = "done"
    /\ modal' = NoModal
    /\ UNCHANGED <<docs, nextId, data, loading, error, proc, calls, faults, attendance, att,
                   db, batch, props, report, showConfirm, confirmAction, userRole,
                   activeSection>>

\* AttendancePage's save button, with the page's selections
onSaveAttendance ==
    /\ modal.kind = "attendance"
    /\ handleSubmitAttendance(modal.selectedClassId, modal.selectedInstructorId,
                              modal.selectedDate, modal.attendanceStatuses)

----------------------------------------------------------------------------
(* exportToCsv.  A row is the sequence of the [key, value] pairs of an      *)
(* object, in the order of its keys; keys and values are texts.            *)

\* texts.join(sep)
RECURSIVE join(_, _)
join(texts, sep) ==
    IF texts = <<>> THEN <<>>
    ELSE IF Len(texts) = 1 THEN texts[1]
    ELSE texts[1] \o sep \o join(Tail(texts), sep)

\* String(value).replace(/"/g, '""')
RECURSIVE replaceQuotes(_)
replaceQuotes(value) ==
    IF value = <<>> THEN <<>>
    ELSE (IF Head(value) = "\"" THEN <<"\"", "\"">> ELSE <<Head(value)>>)
         \o replaceQuotes(Tail(value))

\* processedValue, had a quote in it been a reason to wrap it
processedValueQuoteWrapped(value) ==
    LET replaced == replaceQuotes(value)
    IN  IF includes(replaced, ",") \/ includes(replaced, "\n") \/ includes(replaced, "\"")
        THEN <<"\"">> \o replaced \o <<"\"">>
        ELSE replaced

\* let processedValue = String(value).replace(/"/g, '""');
\* if (processedValue.includes(',') || processedValue.includes('\n'))
\*   processedValue = `"${processedValue}"`;
processedValue(value) ==
    LET replaced == replaceQuotes(value)
    IN  IF includes(replaced, ",") \/ includes(replaced, "\n")
        THEN <<"\"">> \o replaced \o <<"\"">>
        ELSE replaced

\* Object.keys(row), Object.values(row)
keys(row) == [k \in DOMAIN row |-> row[k].key]
values(row) == [k \in DOMAIN row |-> row[k].value]

\* [header, ...rows.map(row => Object.values(row).map(...).join(','))].join('\n')
csvOf(rows) ==
    join(<<join(keys(rows[1]), <<",">>)>>
         \o [r \in DOMAIN rows |->
                join([k \in DOMAIN rows[r] |-> processedValue(rows[r][k].value)], <<",">>)],
         <<"\n">>)

\* exportToCsv(filename, rows, addToast): no rows, an info notice and return;
\* else the csv text, handed to the browser as a download where it has
\* link.download, with a success notice, and an error notice where it has not.
exportToCsv ==
    /\ report.pc = "none"
    /\ report' =
         IF props.rows = <<>>
         THEN [pc |-> "csv", toast |-> "info", file |-> FALSE, csv |-> <<>>]
         ELSE IF props.download
         THEN [pc |-> "csv", toast |-> "success", file |-> TRUE, csv |-> csvOf(props.rows)]
         ELSE [pc |-> "csv", toast |-> "error", file |-> FALSE, csv |-> <<>>]
    /\ UNCHANGED <<docs, nextId, data, loading, error, proc, calls, faults, attendance, att,
                   db, batch, props, page>>

----------------------------------------------------------------------------
(* DashboardLayout: the sidebar and the role switcher.  A dialog or a form   *)
(* modal covers them while it is shown.                                      *)

Roles == {"admin", "supervisor"}

\* sidebarItems: the roles of each section
sidebarItems ==
    [dashboard |-> {"admin"}, students |-> {"admin"}, classes |-> {"admin"},
     courses |-> {"admin"}, payments |-> {"admin"}, expenses |-> {"admin"},
     reports |-> {"admin"}, instructors |-> {"admin"},
     attendance |-> {"admin", "supervisor"}, certificates |-> {"admin"}]

\* the SidebarItem of a section is rendered for the roles of the section;
\* onClick={() => setActiveSection(item.section)}
SidebarItem(section) ==
    /\ ~showConfirm /\ modal.kind = "none"
    /\ userRole \in sidebarItems[section]
    /\ activeSection' = section
    /\ UNCHANGED <<docs, nextId, data, loading, error, proc, calls, faults, attendance, att,
                   db, batch, props, report, modal, showConfirm, confirmAction, userRole>>

\* the role switcher, had it set the role alone
roleSwitcherKept(value) ==
    /\ ~showConfirm /\ modal.kind = "none"
    /\ value # userRole
    /\ userRole' = value
    /\ UNCHANGED <<docs, nextId, data, loading, error, proc, calls, faults, attendance, att,
                   db, batch, props, report, modal, showConfirm, confirmAction, activeSection>>

\* the select's onChange: setUserRole(e.target.value); then
\* setActiveSection('attendance') for the supervisor, 'dashboard' otherwise
roleSwitcher(value) ==
    /\ ~showConfirm /\ modal.kind = "none"
    /\ value # userRole
    /\ userRole' = value
    /\ activeSection' = IF value = "supervisor" THEN "attendance" ELSE "dashboard"
    /\ UNCHANGED <<docs, nextId, data, loading, error, proc, calls, faults, attendance, att,
                   db, batch, props, report, modal, showConfirm, confirmAction>>

----------------------------------------------------------------------------
(* The confirmation dialog of AppContent.  ConfirmModal covers the page      *)
(* (fixed inset-0), so no delete button is clicked while it is shown.  The   *)
(* action it holds closes over the render of the click; a snapshot          *)
(* delivered while the dialog is shown does not reach that action, which is *)
(* as if it were delivered after the confirmation.                          *)

\* handleDeleteClick of the page of a collection, the active section:
\* showConfirmModal(message, () => delete...(id)):
\* setConfirmAction(() => action); setShowConfirm(true)
handleDeleteClick(kind, coll, id) ==
    /\ activeSection = coll
    /\ ~showConfirm
    /\ modal.kind = "none"
    /\ showConfirm' = TRUE
    /\ confirmAction' = [kind |-> kind, coll |-> coll, id |-> id]
    /\ UNCHANGED <<docs, nextId, data, loading, error, proc, calls, faults, attendance, att,
                   db, batch, props, report, modal, userRole, activeSection>>

\* confirmAction(): deleteStudent(studentId), deleteClass(classId), or the
\* deleteDocument of a page of plain records (deletePayment, deleteCourse,
\* deleteExpense, deleteInstructor)
confirmActionCalled(p) ==
    IF confirmAction.kind = "deleteStudent" THEN deleteStudent(p, confirmAction.id)
    ELSE IF confirmAction.kind = "deleteClass" THEN deleteClass(p, confirmAction.id)
    ELSE Adapter(p, deleteDocument(confirmAction.coll, confirmAction.id), NoDoc)

\* handleConfirm, had it left the dialog as it was
handleConfirmKept(p) ==
    /\ showConfirm
    /\ IF confirmAction # NoAction THEN confirmActionCalled(p)
       ELSE UNCHANGED <<docs, nextId, data, loading, error, proc, calls, faults,
                        attendance, att, db, batch, props, report>>
    /\ UNCHANGED <<showConfirm, confirmAction, modal, userRole, activeSection>>

\* handleConfirm: if (confirmAction) confirmAction(); setShowConfirm(false);
\* setConfirmAction(null)
handleConfirm(p) ==
    /\ showConfirm
    /\ IF confirmAction # NoAction THEN confirmActionCalled(p)
       ELSE UNCHANGED <<docs, nextId, data, loading, error, proc, calls, faults,
                        attendance, att, db, batch, props, report>>
    /\ showConfirm' = FALSE
    /\ confirmAction' = NoAction
    /\ UNCHANGED <<modal, userRole, activeSection>>

\* handleCancel: setShowConfirm(false); setConfirmAction(null)
handleCancel ==
    /\ showConfirm
    /\ showConfirm' = FALSE
    /\ confirmAction' = NoAction
    /\ UNCHANGED <<docs, nextId, data, loading, error, proc, calls, faults, attendance, att,
                   db, batch, props, report, modal, userRole, activeSection>>

----------------------------------------------------------------------------
(* The subscription *)

\* onSnapshot's callback: setData(fetchedData); setLoading(false);  The effect
\* subscribes only with a db.
onSnapshot(c) ==
    /\ db
    /\ data[c] # fetchedData(docs[c])
    /\ data' = [data EXCEPT ![c] = fetchedData(docs[c])]
    /\ loading' = [loading EXCEPT ![c] = FALSE]
    /\ UNCHANGED <<docs, nextId, error, proc, calls, faults, attendance, att, db, props, report, batch, page>>

----------------------------------------------------------------------------
(* The specification *)

\* The store after addClass, addClass and addStudent into the first class, each
\* with its snapshot delivered: what lines 2803 and 152 store for a class, lines
\* 385-392 and 152 for a student, and lines 2753-2754 and 171 for its class.
\* a store of two classes and a student of the first
InitialDocs ==
    [c \in Colls |->
        IF c = "classes"
        THEN <<[name |-> "k", students |-> <<1>>, instructors |-> <<>>,
                createdAt |-> 0, updatedAt |-> 0],
               [name |-> "k", students |-> <<>>, instructors |-> <<>>,
                createdAt |-> 0]>>
        ELSE <<[name |-> "n1", classId |-> 1, createdAt |-> 0]>>]

Init ==
    /\ docs = InitialDocs
    /\ nextId = [c \in Colls |-> IF c = "classes" THEN 3 ELSE 2]
    /\ data = [c \in Colls |-> fetchedData(docs[c])]
    /\ loading = [c \in Colls |-> FALSE]
    /\ error = [c \in Colls |-> FALSE]
    /\ proc = [p \in Slots |-> Idle]
    /\ calls = 0
    /\ faults = 0
    /\ attendance = <<>>
    /\ att = <<>>
    /\ batch = NoBatch
    /\ props = NoProps
    /\ report = NoReport
    /\ InitPage
    /\ db = TRUE

\* what AddStudentModal and EditStudentModal submit: a name and a class of the
\* list they offer (validateForm turns away a form with no class chosen)
StudentForms == [name : Names, classId : DOMAIN data.classes]

\* the boxes a modal offers, each clicked at most once
Ticks(ids) == {inOrder(S) : S \in SUBSET ids}

Next ==
    \/ \E p \in Slots, f \in StudentForms : addStudent(p, f) /\ UNCHANGED page
    \/ \E p \in Slots : addStudentAdded(p)
    \/ \E p \in Slots : addStudentDone(p)
    \/ \E p \in Slots, i \in DOMAIN data.students, f \in StudentForms : updateStudent(p, i, f)
    \/ \E p \in Slots : updateStudentUpdated(p)
    \/ \E p \in Slots : updateStudentRemoved(p)
    \/ \E p \in Slots : updateStudentDone(p)
    \/ \E p \in Slots, i \in DOMAIN data.students : deleteStudent(p, i) /\ UNCHANGED page
    \/ \E p \in Slots : deleteStudentDeleted(p)
    \/ \E p \in Slots : deleteStudentDone(p)
    \/ \E p \in Slots, c \in DOMAIN data.classes, t \in Ticks(DOMAIN data.students) :
         assignStudentsToClass(p, c, t)
    \/ \E p \in Slots : assignStudentsDone(p)
    \/ \E p \in Slots, c \in DOMAIN data.classes, t \in Ticks(Instructors) :
         assignInstructorsToClass(p, c, t)
    \/ \E p \in Slots : assignInstructorsDone(p)
    \/ \E p \in Slots, c \in DOMAIN data.classes : deleteClass(p, c) /\ UNCHANGED page
    \/ \E p \in Slots : deleteClassUnassigned(p)
    \/ \E p \in Slots : deleteClassDone(p)
    \/ \E c \in Colls : onSnapshot(c)

Spec == Init /\ [][Next]_vars

\* The student path alone: addStudent, updateStudent and deleteStudent, and the
\* snapshots of their writes.
NextStudentPath ==
    \/ \E p \in Slots, f \in StudentForms : addStudent(p, f) /\ UNCHANGED page
    \/ \E p \in Slots : addStudentAdded(p)
    \/ \E p \in Slots : addStudentDone(p)
    \/ \E p \in Slots, i \in DOMAIN data.students, f \in StudentForms : updateStudent(p, i, f)
    \/ \E p \in Slots : updateStudentUpdated(p)
    \/ \E p \in Slots : updateStudentRemoved(p)
    \/ \E p \in Slots : updateStudentDone(p)
    \/ \E p \in Slots, i \in DOMAIN data.students : deleteStudent(p, i) /\ UNCHANGED page
    \/ \E p \in Slots : deleteStudentDeleted(p)
    \/ \E p \in Slots : deleteStudentDone(p)
    \/ \E c \in Colls : onSnapshot(c)

SpecStudentPath == Init /\ [][NextStudentPath]_vars

\* useFirestore called with a db or with none: without one the effect does not
\* subscribe (lines 120-124) and data stays the [] of useState.
InitAdapter ==
    /\ db \in BOOLEAN
    /\ docs = [c \in Colls |->
                 IF c = "classes"
                 THEN <<[name |-> "k", students |-> <<1>>, instructors |-> <<>>,
                         createdAt |-> 0, updatedAt |-> 0],
                        [name |-> "k", students |-> <<>>, instructors |-> <<>>,
                         createdAt |-> 0]>>
                 ELSE <<[name |-> "n1", classId |-> 1, createdAt |-> 0]>>]
    /\ nextId = [c \in Colls |-> IF c = "classes" THEN 3 ELSE 2]
    /\ data = [c \in Colls |-> IF db THEN fetchedData(docs[c]) ELSE <<>>]
    /\ loading = [c \in Colls |-> FALSE]
    /\ error = [c \in Colls |-> FALSE]
    /\ proc = [p \in Slots |-> Idle]
    /\ calls = 0
    /\ faults = 0
    /\ attendance = <<>>
    /\ att = <<>>
    /\ batch = NoBatch
    /\ props = NoProps
    /\ report = NoReport
    /\ InitPage

\* the documents a caller hands to the adapter
AdapterDocs == [name : Names]

\* The adapter alone, its three functions called by a component.
NextAdapter ==
    \/ \E p \in Slots, c \in Colls, d \in AdapterDocs : Adapter(p, addDocument(c, d), d) /\ UNCHANGED page
    \/ \E p \in Slots, c \in Colls, d \in AdapterDocs :
         \E i \in 1..nextId[c] : Adapter(p, updateDocument(c, i, d), d) /\ UNCHANGED page
    \/ \E p \in Slots, c \in Colls :
         \E i \in 1..nextId[c] : Adapter(p, deleteDocument(c, i), NoDoc) /\ UNCHANGED page
    \/ \E p \in Slots : AdapterDone(p)
    \/ \E c \in Colls : onSnapshot(c)

SpecAdapter == InitAdapter /\ [][NextAdapter]_vars

\* what the attendance page can submit for the students, classes and instructors
\* it is given
AttendanceRecords ==
    [studentId : {idText(i) : i \in DOMAIN data.students},
     classId : {idText(c) : c \in DOMAIN data.classes},
     instructorId : {idText(i) : i \in Instructors}, date : Dates, status : Statuses]

\* The attendance path alone.
NextAttendance ==
    \/ \E rec \in AttendanceRecords : addAttendance(rec)
    \/ \E i \in DOMAIN att : addAttendanceSaved(i)

SpecAttendance == Init /\ [][NextAttendance]_vars

\* The store with a second student in the first class, snapshots delivered.
InitBatch ==
    /\ docs = [c \in Colls |->
                 IF c = "classes"
                 THEN <<[name |-> "k", students |-> <<1, 2>>, instructors |-> <<>>,
                         createdAt |-> 0, updatedAt |-> 0],
                        [name |-> "k", students |-> <<>>, instructors |-> <<>>,
                         createdAt |-> 0]>>
                 ELSE <<[name |-> "n1", classId |-> 1, createdAt |-> 0],
                        [name |-> "n2", classId |-> 1, createdAt |-> 0]>>]
    /\ nextId = [c \in Colls |-> 3]
    /\ data = [c \in Colls |-> fetchedData(docs[c])]
    /\ loading = [c \in Colls |-> FALSE]
    /\ error = [c \in Colls |-> FALSE]
    /\ proc = [p \in Slots |-> Idle]
    /\ calls = 0
    /\ faults = 0
    /\ attendance = <<>>
    /\ att = <<>>
    /\ batch = NoBatch
    /\ props = NoProps
    /\ report = NoReport
    /\ InitPage
    /\ db = TRUE

\* The attendance page: single records and one batch.
NextBatch ==
    \/ \E rec \in AttendanceRecords : addAttendance(rec)
    \/ \E i \in DOMAIN att : addAttendanceSaved(i)
    \/ \E c \in DOMAIN data.classes, i \in Instructors, d \in Dates :
         \E S \in SUBSET classStudents(c) :
           \E st \in [S -> Statuses] : handleSubmitAttendance(c, i, d, st)
    \/ handleSubmitAttendanceDone

SpecBatch == InitBatch /\ [][NextBatch]_vars

\* Every function that writes for a component: the adapter's three and the
\* attendance page's, with or without a store handle.
NextWrites ==
    \/ \E p \in Slots, c \in Colls, d \in AdapterDocs : Adapter(p, addDocument(c, d), d) /\ UNCHANGED page
    \/ \E p \in Slots, c \in Colls, d \in AdapterDocs :
         \E i \in 1..nextId[c] : Adapter(p, updateDocument(c, i, d), d) /\ UNCHANGED page
    \/ \E p \in Slots, c \in Colls :
         \E i \in 1..nextId[c] : Adapter(p, deleteDocument(c, i), NoDoc) /\ UNCHANGED page
    \/ \E p \in Slots : AdapterDone(p)
    \/ \E rec \in AttendanceRecords : addAttendance(rec)
    \/ \E i \in DOMAIN att : addAttendanceSaved(i)
    \/ \E c \in DOMAIN data.classes, i \in Instructors, d \in Dates :
         \E S \in SUBSET classStudents(c) :
           \E st \in [S -> Statuses] : handleSubmitAttendance(c, i, d, st)
    \/ handleSubmitAttendanceDone
    \/ \E c \in Colls : onSnapshot(c)

SpecWrites == InitAdapter /\ [][NextWrites]_vars

\* ids a document of the store can have: any non-empty string without "/"
IdTexts == {<<"a">>, <<"a", "-", "a">>}

\* records of students, classes and instructors with such ids
IdentityRecords ==
    [studentId : IdTexts, classId : IdTexts, instructorId : {<<"i">>},
     date : Dates, status : Statuses]

\* addAttendance over the ids the store can hold.
NextIdentity ==
    \/ \E rec \in IdentityRecords : addAttendance(rec)
    \/ \E i \in DOMAIN att : addAttendanceSaved(i)

SpecIdentity == Init /\ [][NextIdentity]_vars

----------------------------------------------------------------------------
(* What the properties below speak of *)

\* the invocation has returned to its caller
Done(p, kind) == proc[p].kind = kind /\ proc[p].pc = "done"

\* the positions of the invocation's writes in its log
Writes(p) == {i \in DOMAIN proc[p].log : proc[p].log[i].ev = "write"}

\* the store took every write of the invocation
Acked(p) == \A i \in Writes(p) : proc[p].log[i].ok

\* no handler is in flight
Quiescent == \A p \in Slots : ~InFlight(p)

\* s.classId = c.id if and only if c.students contains s.id, over the store
Agreement ==
    \A s \in DOMAIN docs.students, c \in DOMAIN docs.classes :
        (classIdIn(docs.students, s) = c) <=> includes(studentsOf(docs.classes[c]), s)

StudentPath == {"addStudent", "updateStudent", "deleteStudent"}

----------------------------------------------------------------------------
(* C1 *)

\* C1: in every state with no handler in flight, reached by addStudent,
\* updateStudent and deleteStudent calls alone, a student's classId names a
\* class exactly when that class's students list holds the student's id.
\* Stated here for the runs in which the store rejected no write it could have
\* taken; it fails already there, and so fails as claimed.
C1_Agreement == (Quiescent /\ faults = 0) => Agreement

----------------------------------------------------------------------------
(* C2 *)

\* C2: once deleteClass(C) has returned, no student of the store has classId C
\* and the store holds no class C.  Stated here for the runs in which the
\* store took every write; it fails already there, and so fails as claimed.
C2_DeleteClass ==
    \A p \in Slots :
        (Done(p, "deleteClass") /\ Acked(p) /\ faults = 0)
        => /\ proc[p].id \notin DOMAIN docs.classes
           /\ \A s \in DOMAIN docs.students : classIdIn(docs.students, s) # proc[p].id

----------------------------------------------------------------------------
(* C3 *)

\* the key of the claim: student, class, instructor and day
SameKey(a, b) ==
    /\ a.studentId = b.studentId
    /\ a.classId = b.classId
    /\ a.instructorId = b.instructorId
    /\ a.date.day = b.date.day

\* C3: two addAttendance calls for the same (student, class, instructor, day)
\* with different statuses, both taken by the store and both returned, leave
\* exactly one attendance document for that key, and it holds the status of
\* the later of the two (the last such call, when more follow).
C3_AttendanceUpsert ==
    \A i, j \in DOMAIN att :
        ( /\ i < j
          /\ SameKey(att[i].rec, att[j].rec)
          /\ att[i].rec.status # att[j].rec.status
          /\ att[i].ok /\ att[j].ok
          /\ att[i].pc = "done" /\ att[j].pc = "done"
          /\ \A k \in DOMAIN att : (k > j /\ SameKey(att[k].rec, att[j].rec)) => ~att[k].ok )
        => LET held == {k \in DOMAIN attendance : SameKey(attendance[k], att[j].rec)}
           IN  /\ Cardinality(held) = 1
               /\ \A k \in held : attendance[k].status = att[j].rec.status

\* two calls for one key with different statuses, both taken and returned
C3_Witness ==
    \E i, j \in DOMAIN att :
        /\ i < j
        /\ SameKey(att[i].rec, att[j].rec)
        /\ att[i].rec.status # att[j].rec.status
        /\ att[i].ok /\ att[j].ok
        /\ att[i].pc = "done" /\ att[j].pc = "done"
        /\ attendance[att[j].id].status = att[j].rec.status

----------------------------------------------------------------------------
(* C4 *)

\* C4: addStudent with a classId naming a class of the store, returned with
\* every write taken: the student document is new under an id the store did
\* not hold, it is in the store, the named class's students list holds that
\* id, and the invocation wrote no other class.
C4_AddStudent ==
    \A p \in Slots :
        ( /\ Done(p, "addStudent") /\ Acked(p)
          /\ proc[p].arg.classId # Null
          /\ proc[p].arg.classId \in DOMAIN docs.classes )
        => LET r == proc[p]
               w == r.log[1]
           IN  /\ w.ev = "write" /\ w.op = "add" /\ w.coll = "students"
               /\ w.before = NoDoc
               /\ r.id = w.id
               /\ r.id \in DOMAIN docs.students
               /\ \A f \in DOMAIN r.arg : docs.students[r.id][f] = r.arg[f]
               /\ includes(studentsOf(docs.classes[r.arg.classId]), r.id)
               /\ \A i \in Writes(p) :
                     r.log[i].coll = "classes" => r.log[i].id = r.arg.classId

\* an addStudent into a class has returned, both its writes taken
C4_Witness ==
    \E p \in Slots :
        /\ Done(p, "addStudent") /\ Acked(p)
        /\ proc[p].arg.classId \in DOMAIN docs.classes
        /\ Cardinality(Writes(p)) = 2
        /\ includes(studentsOf(docs.classes[proc[p].arg.classId]), proc[p].id)

----------------------------------------------------------------------------
(* C5 *)

----------------------------------------------------------------------------
(* C6 *)

----------------------------------------------------------------------------
(* C7 *)

\* C7: deleteClass deletes no student, and in every student document it
\* writes, the fields the document had (classId apart, and the adapter's
\* updatedAt stamp) keep the value the store held.  The claim allows classId
\* alone to change; this allows updatedAt too and asks nothing of added
\* fields, and fails even so.
C7_DeleteClassFrame ==
    \A p \in Slots :
        proc[p].kind = "deleteClass"
        => \A i \in Writes(p) :
              LET w == proc[p].log[i]
              IN  (w.coll = "students" /\ w.ok)
                  => /\ w.op = "update"
                     /\ \A f \in (DOMAIN w.before) \ {"classId", "updatedAt"} :
                           f \in DOMAIN w.after /\ w.after[f] = w.before[f]

----------------------------------------------------------------------------
(* C8 *)

Assignments == {"assignStudentsToClass", "assignInstructorsToClass"}

\* the list an assignment names
ListOf(kind) == IF kind = "assignStudentsToClass" THEN "students" ELSE "instructors"

\* C8: an assignment through the class path writes the named class and
\* nothing else, once; the write taken, the named list of the class is the
\* submitted list and every other field the class had, its other list among
\* them, is as it was (the adapter's updatedAt stamp apart).
C8_AssignFrame ==
    \A p \in Slots :
        proc[p].kind \in Assignments
        => LET r == proc[p]
               list == ListOf(r.kind)
           IN  /\ Cardinality(Writes(p)) = 1
               /\ DOMAIN r.arg = {list}
               /\ \A i \in Writes(p) :
                     LET w == r.log[i]
                     IN  /\ w.coll = "classes" /\ w.id = r.id /\ w.op = "update"
                         /\ w.ok => /\ w.after[list] = r.arg[list]
                                    /\ \A f \in (DOMAIN w.before) \ {list, "updatedAt"} :
                                          w.after[f] = w.before[f]
                                    /\ docs.classes[r.id] = w.after

\* an assignment of instructors to a class that lists a student has returned,
\* its write taken, the list of instructors changed
C8_Witness ==
    \E p \in Slots :
        /\ proc[p].kind \in Assignments /\ proc[p].pc = "done" /\ Acked(p)
        /\ proc[p].log[1].before[ListOf(proc[p].kind)] # proc[p].arg[ListOf(proc[p].kind)]
        /\ proc[p].log[1].before.students # <<>>
        /\ proc[p].kind = "assignInstructorsToClass"

----------------------------------------------------------------------------
(* C9 *)

\* C9: in addStudent, updateStudent and deleteStudent, returned, for every
\* write to a class that the store rejected: the invocation wrote the student
\* once only, first, and the student is in the store as that write left it;
\* an error notice for the rejected write follows it; and when it was
\* updateStudent's removal from the old class and the new class is in the
\* store, the write to the new class follows.
C9_NoRollback ==
    \A p \in Slots :
        (proc[p].kind \in StudentPath /\ proc[p].pc = "done")
        => LET r == proc[p]
           IN  \A i \in Writes(p) :
                  (r.log[i].coll = "classes" /\ ~r.log[i].ok)
                  => /\ \A j \in Writes(p) : r.log[j].coll = "students" <=> j = 1
                     /\ DocOf("students", r.log[1].id) = r.log[1].after
                     /\ \E j \in DOMAIN r.log :
                           /\ j > i
                           /\ r.log[j].ev = "toast" /\ r.log[j].op = "error"
                           /\ r.log[j].coll = "classes" /\ r.log[j].id = r.log[i].id
                     /\ ( /\ r.kind = "updateStudent"
                          /\ r.log[i].id = r.old
                          /\ r.arg.classId # Null
                          /\ r.arg.classId \in DOMAIN docs.classes )
                        => \E j \in Writes(p) :
                              /\ j > i
                              /\ r.log[j].coll = "classes" /\ r.log[j].id = r.arg.classId

\* an updateStudent has returned whose student write was taken, whose removal
\* from the old class was rejected and whose write to the new class was taken
C9_Witness ==
    \E p \in Slots :
        /\ Done(p, "updateStudent")
        /\ Cardinality(Writes(p)) = 3
        /\ \E i, j \in Writes(p) :
              /\ 1 < i /\ i < j
              /\ proc[p].log[1].ok /\ ~proc[p].log[i].ok /\ proc[p].log[j].ok
              /\ proc[p].log[1].before # proc[p].log[1].after
              /\ DocOf("students", proc[p].id) = proc[p].log[1].after

----------------------------------------------------------------------------
(* C10 *)

\* between the writes at i and j of the log, the write at i has settled
SettledBetween(p, i, j) ==
    \E k \in DOMAIN proc[p].log :
        /\ i < k /\ k < j
        /\ proc[p].log[k].ev = "settled"
        /\ proc[p].log[k].coll = proc[p].log[i].coll
        /\ proc[p].log[k].id = proc[p].log[i].id

\* C10: a handler issues a write only after every earlier write of its has
\* settled; addStudent, updateStudent and deleteStudent write the student
\* first and classes after; deleteClass writes students, each one once, and
\* the class deletion is its last write.
C10_WriteOrder ==
    \A p \in Slots :
        LET r == proc[p]
        IN  /\ \A i, j \in Writes(p) : i < j => SettledBetween(p, i, j)
            /\ r.kind \in StudentPath
               => \A i \in Writes(p) : r.log[i].coll = "students" <=> i = 1
            /\ r.kind = "deleteClass"
               => \A i, j \in Writes(p) :
                     /\ (r.log[i].coll = "classes" /\ i # j)
                        => (j < i /\ r.log[j].coll = "students")
                     /\ ( /\ r.log[i].coll = "students" /\ r.log[j].coll = "students"
                          /\ r.log[i].id = r.log[j].id ) => i = j

\* a deleteClass has written a student and, after it, deleted the class
C10_Witness ==
    \E p \in Slots :
        /\ proc[p].kind = "deleteClass"
        /\ \E i, j \in Writes(p) :
              /\ i < j
              /\ proc[p].log[i].coll = "students"
              /\ proc[p].log[j].coll = "classes" /\ proc[p].log[j].op = "delete"

----------------------------------------------------------------------------
(* C11 *)

AdapterKinds == {"add", "update", "delete"}

\* C11: a function of the adapter called with no db has returned, its log
\* holds one error notice and no write, and data, loading, error, the store
\* and its id counters are as useFirestore and the store began.
C11_StoreUnavailable ==
    ~db => /\ \A p \in Slots :
                proc[p].kind \in AdapterKinds
                => /\ proc[p].pc = "done"
                   /\ Writes(p) = {}
                   /\ Len(proc[p].log) = 1
                   /\ proc[p].log[1].ev = "toast" /\ proc[p].log[1].op = "error"
           /\ \A c \in Colls : data[c] = <<>> /\ ~loading[c] /\ ~error[c]
           /\ docs.students = <<[name |-> "n1", classId |-> 1, createdAt |-> 0]>>
           /\ Len(docs.classes) = 2
           /\ nextId = [c \in Colls |-> IF c = "classes" THEN 3 ELSE 2]

\* with no db, two functions of the adapter have been called, the later one
\* deleteDocument, and have returned
C11_Witness ==
    /\ ~db
    /\ calls = 2
    /\ \E p \in Slots : proc[p].kind = "delete" /\ proc[p].pc = "done"

----------------------------------------------------------------------------
(* C12 *)

\* a function of the adapter has returned after the store rejected its write
Rejected(p) ==
    /\ proc[p].kind \in AdapterKinds /\ proc[p].pc = "done"
    /\ Writes(p) # {}
    /\ ~proc[p].log[1].ok

\* C12: when the store rejects the write of an adapter function, the function
\* returns all the same, an error notice follows the rejection, the error slot
\* of the collection holds an error and the document is as it was; and the
\* adapter's data changes in no step of a handler, only by the delivery of a
\* snapshot of the store.
C12_WriteFailure ==
    /\ [](\A p \in Slots :
            Rejected(p)
            => LET log == proc[p].log
               IN  /\ Len(log) = 3
                   /\ log[2].ev = "settled" /\ ~log[2].ok
                   /\ log[3].ev = "toast" /\ log[3].op = "error"
                   /\ DocOf(log[1].coll, log[1].id) = log[1].before
                   /\ error[log[1].coll])
    /\ [][data' # data
          => /\ proc' = proc
             /\ \E c \in Colls : data' = [data EXCEPT ![c] = fetchedData(docs[c])]]_vars

\* an updateDocument of a document the store holds was rejected and has returned
C12_Witness ==
    \E p \in Slots :
        /\ Rejected(p)
        /\ proc[p].kind = "update"
        /\ proc[p].log[1].before # NoDoc
        /\ error[proc[p].log[1].coll]

----------------------------------------------------------------------------
(* C13 *)

\* C13: handleSubmitAttendance has returned from a batch of which the store
\* took some writes and rejected others: every record it took is in the
\* store, an error notice was shown for every rejected one, and the batch was
\* not reported a success.
C13_BatchPartialFailure ==
    ( /\ batch.pc = "done"
      /\ \E i \in batch.members : att[i].ok
      /\ \E i \in batch.members : ~att[i].ok )
    => /\ \A i \in batch.members :
             att[i].ok => /\ att[i].id \in DOMAIN attendance
                          /\ attendance[att[i].id].status = att[i].rec.status
       /\ \A i \in batch.members : ~att[i].ok => att[i].toast = "error"
       /\ batch.toast # "success"

----------------------------------------------------------------------------
(* C14 *)

\* the first call whose write created the attendance document k
Creation(k) ==
    CHOOSE i \in DOMAIN att :
        /\ att[i].id = k /\ att[i].ok
        /\ \A j \in DOMAIN att : (att[j].id = k /\ att[j].ok) => i <= j

\* C14: every attendance document carries the createdAt written by the call
\* that created it, however often its key was submitted again.
C14_CreatedAtKept ==
    \A k \in DOMAIN attendance : attendance[k].createdAt = att[Creation(k)].at

----------------------------------------------------------------------------
(* C15 *)

\* C15: two addAttendance calls the store took, for (student, class,
\* instructor, day) tuples that differ in a component, wrote two documents:
\* their ids differ, and each document holds the status of its own call while
\* no later call for its tuple was taken.
C15_AttendanceIdentity ==
    \A i, j \in DOMAIN att :
        (i < j /\ att[i].ok /\ att[j].ok /\ ~SameKey(att[i].rec, att[j].rec))
        => /\ att[i].id # att[j].id
           /\ (\A k \in DOMAIN att : (k > i /\ att[k].ok) => ~SameKey(att[k].rec, att[i].rec))
              => attendance[att[i].id].status = att[i].rec.status

----------------------------------------------------------------------------
(* C16 *)

\* no id occurs twice in the list
NoRepeat(list) == \A i, j \in DOMAIN list : list[i] = list[j] => i = j

\* C16: with no handler in flight, no class's students list holds an id
\* twice.  Stated here for the runs in which the store rejected no write it
\* could have taken; it fails already there, and so fails as claimed.
C16_StudentsIsSet ==
    (Quiescent /\ faults = 0)
    => \A c \in DOMAIN docs.classes : NoRepeat(studentsOf(docs.classes[c]))

\* amounts the payment and expense forms accept: positive numbers
PaymentAmounts == {100, 250}
ExpenseAmounts == {100, 150}
\* the categories of the expense form, and none
Categories == {"", "c1", "c2"}
Courses == {1, 2}
CourseNames == {"a", "b"}

\* sequences of at most n members of S
SeqsUpTo(S, n) == UNION {[1..k -> S] : k \in 0..n}

\* the payments of a snapshot: of no course, or of a course that may be gone
PaymentLists ==
    SeqsUpTo([amount : PaymentAmounts, courseId : {Null} \cup Courses], MaxPayments)

ExpenseLists == SeqsUpTo([amount : ExpenseAmounts, category : Categories], MaxExpenses)

\* the courses of a snapshot, in the order of their ids; two may share a name
CourseLists ==
    {[k \in 1..Len(ids) |-> [id |-> ids[k], name |-> nm[ids[k]]]] :
        ids \in Ticks(Courses), nm \in [Courses -> CourseNames]}

InitReports ==
    /\ docs = [c \in Colls |-> <<>>]
    /\ nextId = [c \in Colls |-> 1]
    /\ data = [c \in Colls |-> <<>>]
    /\ loading = [c \in Colls |-> FALSE]
    /\ error = [c \in Colls |-> FALSE]
    /\ proc = [p \in Slots |-> Idle]
    /\ calls = 0
    /\ faults = 0
    /\ attendance = <<>>
    /\ att = <<>>
    /\ batch = NoBatch
    /\ db = TRUE
    /\ props \in [payments : PaymentLists, expenses : ExpenseLists, courses : CourseLists,
                   students : {<<>>}, classes : {<<>>}, selectedClassIds : {<<>>}]
    /\ report = NoReport
    /\ InitPage

\* ReportsPage alone.
NextReports == ReportsPage

SpecReports == InitReports /\ [][NextReports]_vars

\* members of a class's students list
MaxListed == 2
\* ids a students list can hold: those of the two students and one of no student
ListedIds == {1, 2, 3}

\* the students of a snapshot, in the order of their ids
StudentLists ==
    {[k \in 1..Len(ids) |-> [id |-> ids[k], name |-> nm[ids[k]]]] :
        ids \in Ticks({1, 2}), nm \in [{1, 2} -> Names]}

\* the classes of a snapshot: the first, and the second unless it was deleted;
\* a students list may repeat an id and may hold the id of no student
ClassLists ==
    {[k \in 1..n |-> [id |-> k, name |-> IF k = 1 THEN "k1" ELSE "k2", students |-> l[k]]] :
        n \in {1, 2}, l \in [{1, 2} -> SeqsUpTo(ListedIds, MaxListed)]}

\* handleClassSelectionChange: the boxes ticked, in the order of the clicks
Selections == {<<>>, <<1>>, <<2>>, <<1, 2>>, <<2, 1>>}

InitExport ==
    /\ docs = [c \in Colls |-> <<>>]
    /\ nextId = [c \in Colls |-> 1]
    /\ data = [c \in Colls |-> <<>>]
    /\ loading = [c \in Colls |-> FALSE]
    /\ error = [c \in Colls |-> FALSE]
    /\ proc = [p \in Slots |-> Idle]
    /\ calls = 0
    /\ faults = 0
    /\ attendance = <<>>
    /\ att = <<>>
    /\ batch = NoBatch
    /\ db = TRUE
    /\ props \in [payments : {<<>>}, expenses : {<<>>}, courses : {<<>>},
                   students : StudentLists, classes : ClassLists,
                   selectedClassIds : Selections]
    /\ report = NoReport
    /\ InitPage

\* The export button of ReportsPage alone.
NextExport == handleExportStudentsByClass

SpecExport == InitExport /\ [][NextExport]_vars

\* the collections of the form modals
FormColls == Colls \cup {"payments", "expenses", "courses"}

\* n digits
Digits(n) == [k \in 1..n |-> "5"]

\* what can be typed into the phone field
Phones ==
    {<<>>, <<" ">>, Digits(9), Digits(10), Digits(11), Append(Digits(9), "x"),
     <<" ">> \o Digits(10)}

\* what can be typed into the e-mail field
Emails ==
    {<<>>, <<"a", "@", "b", ".", "c">>, <<"a", "@", "b">>, <<"a", "b", ".", "c">>,
     <<"a", "@", "@", "b", ".", "c">>, <<"a", " ", "@", "b", ".", "c">>,
     <<"a", "@", ".", "c">>, <<"a", "@", "b", ".">>, <<"a", "@", "b", ".", ".", "c">>}

\* what can be typed into an amount or a price field
AmountTexts ==
    {<<>>, <<" ">>, <<"0">>, <<"-", "5">>, <<"5">>, <<"1", "5">>, <<"a">>,
     <<"5", "a">>, <<" ", "5">>}

\* what can be typed into a name or a description field
NameTexts == {<<>>, <<" ">>, <<"n">>}

StudentModals ==
    [kind : {"student"}, pc : {"open"}, errors : {{}}, toast : {"none"},
     name : NameTexts, phone : Phones, email : Emails,
     selectedClassId : {Null} \cup DOMAIN data.classes]

PaymentModals ==
    [kind : {"payment"}, pc : {"open"}, errors : {{}}, toast : {"none"},
     studentId : {Null} \cup DOMAIN data.students, amount : AmountTexts, date : BOOLEAN]

ExpenseModals ==
    [kind : {"expense"}, pc : {"open"}, errors : {{}}, toast : {"none"},
     name : NameTexts, amount : AmountTexts, date : BOOLEAN]

CourseModals ==
    [kind : {"course"}, pc : {"open"}, errors : {{}}, toast : {"none"},
     name : NameTexts, amount : AmountTexts]

\* AttendancePage's selections; its effect empties attendanceStatuses while no
\* class is selected and offers the students of the selected class
AttendancePages ==
    UNION {[kind : {"attendance"}, pc : {"open"}, selectedClassId : {c},
            selectedInstructorId : {Null} \cup Instructors,
            selectedDate : {NoDate, [day |-> 1, hour |-> 0]},
            attendanceStatuses :
                UNION {[S -> Statuses] :
                         S \in IF c = Null THEN {{}} ELSE SUBSET classStudents(c)}] :
           c \in {Null} \cup DOMAIN data.classes}

InitForms ==
    /\ docs = [c \in FormColls |-> IF c \in Colls THEN InitialDocs[c] ELSE <<>>]
    /\ nextId = [c \in FormColls |->
                   IF c = "classes" THEN 3 ELSE IF c = "students" THEN 2 ELSE 1]
    /\ data = [c \in FormColls |-> fetchedData(docs[c])]
    /\ loading = [c \in FormColls |-> FALSE]
    /\ error = [c \in FormColls |-> FALSE]
    /\ proc = [p \in Slots |-> Idle]
    /\ calls = 0
    /\ faults = 0
    /\ attendance = <<>>
    /\ att = <<>>
    /\ batch = NoBatch
    /\ db = TRUE
    /\ props = NoProps
    /\ report = NoReport
    /\ modal \in StudentModals \cup PaymentModals \cup ExpenseModals \cup CourseModals
                 \cup AttendancePages
    /\ showConfirm = FALSE
    /\ confirmAction = NoAction
    /\ userRole = "admin"
    /\ activeSection = "dashboard"

\* A form modal or the attendance page, filled in, and its submit button.
NextForms ==
    \/ \E p \in Slots : handleSubmit(p)
    \/ \E p \in Slots : addStudentAdded(p)
    \/ \E p \in Slots : addStudentDone(p)
    \/ \E p \in Slots : AdapterDone(p)
    \/ \E p \in Slots : handleSubmitClosed(p)
    \/ onSaveAttendance
    \/ \E i \in DOMAIN att : addAttendanceSaved(i)
    \/ handleSubmitAttendanceDone
    \/ \E c \in FormColls : onSnapshot(c)

SpecForms == InitForms /\ [][NextForms]_vars

\* rows handed to exportToCsv
MaxRows == 2

\* the values of the fields of a row
CsvTexts == {<<>>, <<"a">>, <<",">>, <<"\"">>, <<"\n">>, <<"\"", ",">>}

\* rows of one field and rows of two
CsvRows ==
    {<<[key |-> <<"x">>, value |-> v]>> : v \in CsvTexts}
    \cup {<<[key |-> <<"x">>, value |-> v], [key |-> <<"y">>, value |-> w]>> :
            v \in CsvTexts, w \in CsvTexts}

InitCsv ==
    /\ docs = [c \in Colls |-> <<>>]
    /\ nextId = [c \in Colls |-> 1]
    /\ data = [c \in Colls |-> <<>>]
    /\ loading = [c \in Colls |-> FALSE]
    /\ error = [c \in Colls |-> FALSE]
    /\ proc = [p \in Slots |-> Idle]
    /\ calls = 0
    /\ faults = 0
    /\ attendance = <<>>
    /\ att = <<>>
    /\ batch = NoBatch
    /\ db = TRUE
    /\ props \in [rows : SeqsUpTo(CsvRows, MaxRows), download : BOOLEAN]
    /\ report = NoReport
    /\ InitPage

\* exportToCsv alone.
NextCsv == exportToCsv

SpecCsv == InitCsv /\ [][NextCsv]_vars

\* the collections of the pages with a delete button: payments stands for the
\* pages of plain records
ConfirmColls == Colls \cup {"payments"}

InitConfirm ==
    /\ docs = [c \in ConfirmColls |->
                 IF c \in Colls THEN InitialDocs[c]
                 ELSE <<[studentId |-> 1, amount |-> 100, createdAt |-> 0]>>]
    /\ nextId = [c \in ConfirmColls |-> IF c = "classes" THEN 3 ELSE 2]
    /\ data = [c \in ConfirmColls |-> fetchedData(docs[c])]
    /\ loading = [c \in ConfirmColls |-> FALSE]
    /\ error = [c \in ConfirmColls |-> FALSE]
    /\ proc = [p \in Slots |-> Idle]
    /\ calls = 0
    /\ faults = 0
    /\ attendance = <<>>
    /\ att = <<>>
    /\ batch = NoBatch
    /\ db = TRUE
    /\ props = NoProps
    /\ report = NoReport
    /\ InitPage

\* The sidebar, the role switcher, the delete buttons of the pages and the
\* dialog.
NextConfirm ==
    \/ \E section \in DOMAIN sidebarItems : SidebarItem(section)
    \/ \E value \in Roles : roleSwitcher(value)
    \/ \E i \in DOMAIN data.students : handleDeleteClick("deleteStudent", "students", i)
    \/ \E c \in DOMAIN data.classes : handleDeleteClick("deleteClass", "classes", c)
    \/ \E i \in DOMAIN data.payments : handleDeleteClick("delete", "payments", i)
    \/ \E p \in Slots : handleConfirm(p)
    \/ handleCancel
    \/ \E p \in Slots : deleteStudentDeleted(p)
    \/ \E p \in Slots : deleteStudentDone(p)
    \/ \E p \in Slots : deleteClassUnassigned(p)
    \/ \E p \in Slots : deleteClassDone(p)
    \/ \E p \in Slots : AdapterDone(p)
    \/ \E c \in ConfirmColls : ~showConfirm /\ onSnapshot(c)

SpecConfirm == InitConfirm /\ [][NextConfirm]_vars

\* two callers of one adapter: a second function is called while the first
\* awaits its write
Overlapped == {"p", "q"}

InitOverlap ==
    /\ db \in BOOLEAN
    /\ docs = [c \in Colls |-> InitialDocs[c]]
    /\ nextId = [c \in Colls |-> IF c = "classes" THEN 3 ELSE 2]
    /\ data = [c \in Colls |-> IF db THEN fetchedData(docs[c]) ELSE <<>>]
    /\ loading = [c \in Colls |-> FALSE]
    /\ error = [c \in Colls |-> FALSE]
    /\ proc = [p \in Overlapped |-> Idle]
    /\ calls = 0
    /\ faults = 0
    /\ attendance = <<>>
    /\ att = <<>>
    /\ batch = NoBatch
    /\ props = NoProps
    /\ report = NoReport
    /\ InitPage

\* The three functions of the adapter, called while others are in flight.
NextOverlap ==
    \/ \E p \in Overlapped, c \in Colls, d \in AdapterDocs : Adapter(p, addDocument(c, d), d) /\ UNCHANGED page
    \/ \E p \in Overlapped, c \in Colls, d \in AdapterDocs :
         \E i \in 1..nextId[c] : Adapter(p, updateDocument(c, i, d), d) /\ UNCHANGED page
    \/ \E p \in Overlapped, c \in Colls :
         \E i \in 1..nextId[c] : Adapter(p, deleteDocument(c, i), NoDoc) /\ UNCHANGED page
    \/ \E p \in Overlapped : AdapterDone(p)
    \/ \E c \in Colls : onSnapshot(c)

SpecOverlap == InitOverlap /\ [][NextOverlap]_vars

----------------------------------------------------------------------------
(* C17 *)

\* a function of the adapter has returned after the store took its write
Taken(p, kind) ==
    /\ proc[p].kind = kind /\ proc[p].pc = "done"
    /\ Writes(p) # {}
    /\ proc[p].log[1].ok

\* the time of the call of the invocation that has just returned
CalledAt == calls - 1

\* C17, as claimed: the document a successful addDocument or updateDocument
\* leaves carries updatedAt, the time of the call, and the one addDocument
\* leaves carries createdAt as well.
C17_EveryMutationStamped ==
    \A p \in Slots :
        /\ Taken(p, "update")
           => /\ "updatedAt" \in DOMAIN proc[p].log[1].after
              /\ proc[p].log[1].after.updatedAt = CalledAt
        /\ Taken(p, "add")
           => /\ "updatedAt" \in DOMAIN proc[p].log[1].after
              /\ proc[p].log[1].after.updatedAt = CalledAt
              /\ "createdAt" \in DOMAIN proc[p].log[1].after
              /\ proc[p].log[1].after.createdAt = CalledAt

\* C17, amended: the document a successful updateDocument leaves carries
\* updatedAt, the time of the call, and its createdAt as before; the one a
\* successful addDocument leaves carries createdAt, the time of the call, and
\* no updatedAt.
C17_Stamps ==
    \A p \in Slots :
        /\ Taken(p, "update")
           => LET w == proc[p].log[1]
              IN  /\ "updatedAt" \in DOMAIN w.after
                  /\ w.after.updatedAt = CalledAt
                  /\ w.after.createdAt = w.before.createdAt
                  /\ DocOf(w.coll, w.id) = w.after
        /\ Taken(p, "add")
           => LET w == proc[p].log[1]
              IN  /\ "createdAt" \in DOMAIN w.after
                  /\ w.after.createdAt = CalledAt
                  /\ "updatedAt" \notin DOMAIN w.after
                  /\ DocOf(w.coll, w.id) = w.after

\* by the second call, an updateDocument has stamped a document that carried
\* no updatedAt
C17_Witness ==
    \E p \in Slots :
        /\ Taken(p, "update")
        /\ calls = 2
        /\ "updatedAt" \notin DOMAIN proc[p].log[1].before
        /\ proc[p].log[1].after.updatedAt = 1

----------------------------------------------------------------------------
(* C18 *)

\* the write attempts of an invocation of the adapter, in order
Attempts(pr) == SelectSeq(pr.log, LAMBDA e : e.ev = "write")

\* the step sends a write to the store
Attempt ==
    \/ \E p \in Slots : Attempts(proc'[p]) # Attempts(proc[p]) /\ Attempts(proc'[p]) # <<>>
    \/ Len(att') > Len(att)
    \/ docs' # docs
    \/ attendance' # attendance
    \/ faults' # faults

\* C18: no write is retried.  An invocation of addDocument, updateDocument or
\* deleteDocument sends at most one write; the setDoc calls of one addAttendance
\* or of one handleSubmitAttendance go to different documents; and a step that
\* sends a write is a call by a component, so that after a rejected write
\* nothing is sent until the next call.
C18_NoRetry ==
    /\ [](/\ \A p \in Slots : Len(Attempts(proc[p])) <= 1
          /\ \A i, j \in DOMAIN att :
                (i # j /\ att[i].at = att[j].at) => att[i].id # att[j].id)
    /\ [][Attempt => calls' = calls + 1]_vars

\* a rejected setDoc of addAttendance has settled with its notice, the only write
\* sent to its document
C18_Witness ==
    \E i \in DOMAIN att :
        /\ att[i].pc = "done" /\ ~att[i].ok /\ att[i].toast = "error"
        /\ \A j \in DOMAIN att : att[j].id = att[i].id => j = i
        /\ batch.pc = "idle"

----------------------------------------------------------------------------
(* C19 *)

\* the sum of f over the finite set S
RECURSIVE SumOver(_, _)
SumOver(f, S) ==
    IF S = {} THEN 0
    ELSE LET x == CHOOSE y \in S : TRUE IN f[x] + SumOver(f, S \ {x})

\* the sum of the amounts of the records of a list
Total(list) == SumOver([k \in DOMAIN list |-> list[k].amount], DOMAIN list)

Rendered == report.pc = "rendered"

\* the amounts of a list, in order
amounts(list) == [k \in DOMAIN list |-> list[k].amount]

\* C19: in every render netIncome is totalRevenue less totalExpenses,
\* totalRevenue the sum of the amounts of the payments and totalExpenses that of
\* the expenses; with no payment and no expense the three are 0, and the
\* payments 250 and 100 with the expense 150 give 350, 150 and 200.
C19_NetIncome ==
    Rendered =>
        /\ report.totalRevenue = Total(props.payments)
        /\ report.totalExpenses = Total(props.expenses)
        /\ report.netIncome = report.totalRevenue - report.totalExpenses
        /\ (props.payments = <<>> /\ props.expenses = <<>>)
           => /\ report.totalRevenue = 0
              /\ report.totalExpenses = 0
              /\ report.netIncome = 0
        /\ (amounts(props.payments) = <<250, 100>> /\ amounts(props.expenses) = <<150>>)
           => /\ report.totalRevenue = 350
              /\ report.totalExpenses = 150
              /\ report.netIncome = 200

\* the render of the payments 250 and 100 with the expense 150
C19_Witness ==
    /\ Rendered
    /\ amounts(props.payments) = <<250, 100>>
    /\ amounts(props.expenses) = <<150>>
    /\ report.netIncome = 200

----------------------------------------------------------------------------
(* C20 *)

\* the sum of the values of a group-by object
SumValues(acc) == SumOver(acc, DOMAIN acc)

\* the payment has a courseId and a course of the list has that id
Resolves(payment) ==
    /\ payment.courseId # Null
    /\ \E k \in DOMAIN props.courses : props.courses[k].id = payment.courseId

\* the places of the payments that resolve
Resolved == {k \in DOMAIN props.payments : Resolves(props.payments[k])}

NoCategory(expense) == expense.category = ""

\* the places of the expenses with no category
Uncategorised == {k \in DOMAIN props.expenses : NoCategory(props.expenses[k])}

\* C20: in every render the values of expensesByCategory sum to totalExpenses,
\* the expenses with no category being those of the uncategorized bucket; the
\* values of revenueByCourse sum to the amounts of the payments whose courseId
\* is that of a course of the list, so to at most totalRevenue, and to
\* totalRevenue only if every payment has such a courseId.
C20_GroupTotals ==
    Rendered =>
        /\ SumValues(report.expensesByCategory) = report.totalExpenses
        /\ LET none == Uncategorised
           IN  IF none = {} THEN Uncategorized \notin DOMAIN report.expensesByCategory
               ELSE /\ Uncategorized \in DOMAIN report.expensesByCategory
                    /\ report.expensesByCategory[Uncategorized]
                         = SumOver(amounts(props.expenses), none)
        /\ SumValues(report.revenueByCourse)
             = SumOver(amounts(props.payments), Resolved)
        /\ SumValues(report.revenueByCourse) <= report.totalRevenue
        /\ SumValues(report.revenueByCourse) = report.totalRevenue
           => \A k \in DOMAIN props.payments : Resolves(props.payments[k])
        /\ DOMAIN report.revenueByCourse \subseteq
             {props.courses[k].name : k \in DOMAIN props.courses}

\* a render with an expense of no category, a payment of a course that is gone
\* and a payment of a course of the list
C20_Witness ==
    /\ Rendered
    /\ \E k \in DOMAIN props.expenses : NoCategory(props.expenses[k])
    /\ \E k \in DOMAIN props.payments :
          props.payments[k].courseId # Null /\ ~Resolves(props.payments[k])
    /\ \E k \in DOMAIN props.payments : Resolves(props.payments[k])
    /\ SumValues(report.revenueByCourse) < report.totalRevenue
    /\ SumValues(report.revenueByCourse) > 0

----------------------------------------------------------------------------
(* C21 *)

Exported == report.pc = "exported"

\* the students a selected class lists
ListedInSelection ==
    {i \in ListedIds :
        \E s \in DOMAIN props.selectedClassIds, c \in DOMAIN props.classes :
            /\ props.classes[c].id = props.selectedClassIds[s]
            /\ \E k \in DOMAIN props.classes[c].students : props.classes[c].students[k] = i}

\* the ids of the students that exist
Existing == {props.students[k].id : k \in DOMAIN props.students}

\* the rows pushed for a student
RowsOf(i) == {k \in DOMAIN report.dataToExport : report.dataToExport[k].of = i}

\* C21: the export of a selection of classes has exactly one row for each
\* existing student listed by a selected class, however many of them list it,
\* and no row for an id of no student or for a student no selected class lists.
C21_ExportOnce ==
    Exported =>
        \A i \in ListedIds :
            Cardinality(RowsOf(i)) = IF i \in Existing /\ i \in ListedInSelection THEN 1 ELSE 0

\* an export of two classes that both list a student, one of them twice, and
\* list an id of no student
C21_Witness ==
    /\ Exported
    /\ Len(props.selectedClassIds) = 2
    /\ \E i \in Existing :
          /\ \A c \in DOMAIN props.classes : includes(props.classes[c].students, i)
          /\ props.classes[1].students = <<i, i>>
          /\ Cardinality(RowsOf(i)) = 1
    /\ \E i \in ListedInSelection : i \notin Existing
    /\ report.file

----------------------------------------------------------------------------
(* C22 *)

\* the invocation is an updateStudent given the classId it found for the student
SameClass(r) == r.kind = "updateStudent" /\ r.old = r.arg.classId

----------------------------------------------------------------------------
(* C23 *)

\* the text is an address: one "@" with text before it, no white space, and
\* after the "@" a point with text on both sides
Address(email) ==
    /\ Cardinality({k \in DOMAIN email : email[k] = "@"}) = 1
    /\ \A k \in DOMAIN email : ~isSpace(email[k])
    /\ email[1] # "@"
    /\ \E i, j \in DOMAIN email :
          email[i] = "@" /\ email[j] = "." /\ i + 1 < j /\ j < Len(email)

\* the form has one of the field errors: student: empty name, phone not of 10
\* or more digits, malformed e-mail, no class; payment, expense, course: amount
\* or price missing or not positive; attendance: class, instructor or date
\* unset, or no status recorded
FieldError(m) ==
    \/ /\ m.kind = "student"
       /\ \/ trim(m.name) = <<>>
          \/ Len(m.phone) < 10
          \/ \E k \in DOMAIN m.phone : ~isDigit(m.phone[k])
          \/ m.email # <<>> /\ ~Address(m.email)
          \/ m.selectedClassId = Null
    \/ /\ m.kind \in {"payment", "expense", "course"}
       /\ \/ trim(m.amount) = <<>>
          \/ ~isNaN(parseFloat(m.amount)) /\ parseFloat(m.amount).value <= 0
    \/ /\ m.kind = "attendance"
       /\ \/ m.selectedClassId = Null
          \/ m.selectedInstructorId = Null
          \/ m.selectedDate = NoDate
          \/ DOMAIN m.attendanceStatuses = {}

\* C23: while the open form has a field error, no step sends anything to the
\* store or starts a handler, and the form stays open.
C23_ValidationFirst ==
    [][(modal.kind # "none" /\ modal.pc = "open" /\ FieldError(modal))
       => /\ docs' = docs /\ nextId' = nextId /\ faults' = faults
          /\ attendance' = attendance /\ att' = att
          /\ proc' = proc /\ calls' = calls
          /\ modal'.kind = modal.kind /\ modal'.pc = "open"]_vars

\* the student form was submitted with a phone of nine digits: the error is
\* shown on the form, which is open, and nothing was sent
C23_Witness ==
    /\ modal.kind = "student" /\ modal.pc = "open"
    /\ modal.errors = {"phone"}
    /\ modal.toast = "error"
    /\ Len(modal.phone) = 9
    /\ docs.students = InitialDocs.students
    /\ calls = 0

----------------------------------------------------------------------------
(* C24 *)

\* the lines of a text: its parts between the newlines that are outside quotes
RECURSIVE linesOf(_, _, _)
linesOf(text, line, quoted) ==
    IF text = <<>> THEN <<line>>
    ELSE IF Head(text) = "\n" /\ ~quoted
    THEN <<line>> \o linesOf(Tail(text), <<>>, FALSE)
    ELSE linesOf(Tail(text), Append(line, Head(text)),
                 IF Head(text) = "\"" THEN ~quoted ELSE quoted)

\* occurrences of a character in a text
count(text, ch) == Cardinality({k \in DOMAIN text : text[k] = ch})

\* the field as the claim has it: quotes doubled, and wrapped in quotes exactly
\* when the value has a comma or a newline
Field(value) ==
    LET doubled == [k \in 1..(Len(value) + count(value, "\"")) |->
                      LET src == CHOOSE i \in DOMAIN value :
                                    k \in {i + count(slice(value, 1, i - 1), "\""),
                                           i + count(slice(value, 1, i), "\"")}
                      IN  value[src]]
        wrapped == \E k \in DOMAIN value : value[k] \in {",", "\n"}
    IN  IF wrapped THEN <<"\"">> \o doubled \o <<"\"">> ELSE doubled

CsvDone == report.pc = "csv"

\* C24: exportToCsv of no rows shows an info notice and makes no file; of rows,
\* where the browser can download, its file has the keys of the first row as
\* its first line and then one line for each row, the fields of a row joined by
\* commas, each with its quotes doubled and wrapped in quotes exactly when it
\* has a comma or a newline.
C24_CsvQuoting ==
    CsvDone =>
        /\ props.rows = <<>> => (report.toast = "info" /\ ~report.file)
        /\ (props.rows # <<>> /\ props.download) =>
              /\ report.file
              /\ \A r \in DOMAIN props.rows : \A k \in DOMAIN props.rows[r] :
                    LET v == props.rows[r][k].value
                        f == processedValue(v)
                    IN  /\ f = Field(v)
                        /\ count(f, "\"")
                             = 2 * count(v, "\"")
                               + (IF includes(v, ",") \/ includes(v, "\n") THEN 2 ELSE 0)
              /\ LET lines == linesOf(report.csv, <<>>, FALSE)
                 IN  /\ Len(lines) = Len(props.rows) + 1
                     /\ lines[1] = join(keys(props.rows[1]), <<",">>)
                     /\ \A r \in DOMAIN props.rows :
                           lines[r + 1]
                             = join([k \in DOMAIN props.rows[r] |-> Field(props.rows[r][k].value)],
                                    <<",">>)

\* a file of two rows, with a field of a quote and a comma, a field of a quote
\* alone and a field of a newline
C24_Witness ==
    /\ CsvDone /\ report.file
    /\ Len(props.rows) = 2
    /\ \E r \in DOMAIN props.rows : \E k \in DOMAIN props.rows[r] :
          props.rows[r][k].value = <<"\"", ",">>
    /\ \E r \in DOMAIN props.rows : \E k \in DOMAIN props.rows[r] :
          props.rows[r][k].value = <<"\"">>
    /\ \E r \in DOMAIN props.rows : \E k \in DOMAIN props.rows[r] :
          props.rows[r][k].value = <<"\n">>

----------------------------------------------------------------------------
(* C25 *)

\* C25: an updateStudent or deleteStudent whose write to the student's document
\* the store rejected sends no write to a document of classes, so that no
\* class's list loses the student, who is still in the store.
C25_PrimaryFirst ==
    \A p \in Slots :
        ( /\ proc[p].kind \in {"updateStudent", "deleteStudent"}
          /\ Writes(p) # {}
          /\ ~proc[p].log[1].ok )
        => \A i \in Writes(p) :
              /\ proc[p].log[i].coll # "classes"
              /\ (i > 1 /\ includes(studentsOf(proc[p].log[i].before), proc[p].id))
                 => includes(studentsOf(proc[p].log[i].after), proc[p].id)

----------------------------------------------------------------------------
(* C26 *)

\* the ids of a list
idsOf(list) == {list[k] : k \in DOMAIN list}

\* C26: a write of addStudent or deleteStudent to a class changes the list the
\* store holds at that moment by the one student only, whatever snapshot the
\* handler was called with: addStudent's keeps every id of the list and adds
\* its student, deleteStudent's keeps every id but its student's and adds
\* none.  Stated here for the runs in which the store rejected no write.
C26_NoLostUpdate ==
    \A p \in Slots :
        (proc[p].kind \in {"addStudent", "deleteStudent"} /\ faults = 0)
        => \A i \in Writes(p) :
              (proc[p].log[i].coll = "classes" /\ proc[p].log[i].ok)
              => LET before == idsOf(studentsOf(proc[p].log[i].before))
                     after == idsOf(studentsOf(proc[p].log[i].after))
                     own == {proc[p].log[1].id}
                 IN  IF proc[p].kind = "addStudent"
                     THEN after = before \cup own
                     ELSE after = before \ own

----------------------------------------------------------------------------
(* C27 *)

\* C27: with no handler in flight, every id in the students list of a class of
\* the store is the id of a student of the store.  Stated here for the runs in
\* which the store rejected no write.
C27_NoDangling ==
    (Quiescent /\ faults = 0)
    => \A c \in DOMAIN docs.classes :
          idsOf(studentsOf(docs.classes[c])) \subseteq DOMAIN docs.students

----------------------------------------------------------------------------
(* C28 *)

\* the step calls a handler
Called == calls' # calls

\* C28: a closed dialog holds no action; a delete handler is called only in a
\* step that closes a shown dialog, and it is the one the dialog held, called
\* once; handleCancel calls nothing and leaves the store as it is; the store
\* changes only in the steps of a handler so called; and a step that closes the
\* dialog leaves no action in it.
C28_ConfirmationGate ==
    /\ [](~showConfirm => confirmAction = NoAction)
    /\ [][Called =>
            /\ showConfirm /\ ~showConfirm' /\ confirmAction' = NoAction
            /\ calls' = calls + 1
            /\ \E p \in Slots :
                  /\ proc'[p] # proc[p]
                  /\ \A q \in Slots \ {p} : proc'[q] = proc[q]
                  /\ proc'[p].kind = confirmAction.kind
                  /\ proc'[p].id = confirmAction.id
                  /\ confirmAction.kind = "delete"
                     => /\ Len(Attempts(proc'[p])) = 1
                        /\ proc'[p].log[1].coll = confirmAction.coll
                        /\ proc'[p].log[1].op = "delete"]_vars
    /\ [][handleCancel => (docs' = docs /\ proc' = proc /\ calls' = calls)]_vars
    /\ [][docs' # docs => \E p \in Slots : proc'[p] # proc[p] /\ proc'[p].kind # "idle"]_vars
    /\ [][(showConfirm /\ ~showConfirm') => confirmAction' = NoAction]_vars

\* a dialog was cancelled or confirmed before, and the deleteStudent of a second
\* one, confirmed, has deleted the student; the dialog is closed
C28_Witness ==
    \E p \in Slots :
        /\ Done(p, "deleteStudent")
        /\ proc[p].log[1].ok
        /\ proc[p].id \notin DOMAIN docs.students
        /\ ~showConfirm /\ confirmAction = NoAction
        /\ calls = 1
        /\ docs.payments # <<>>

----------------------------------------------------------------------------
(* C29 *)

\* the functions of the adapter of collection c that await their write
Pending(c) ==
    {p \in DOMAIN proc : proc[p].kind \in AdapterKinds /\ InFlight(p) /\ Awaited(p).coll = c}

\* C29: the adapter's loading flag of a collection is true in every state in
\* which an add, an update or a delete on that collection awaits its write,
\* also when another one on it has returned meanwhile.
C29_LoadingWhileInFlight ==
    \A c \in DOMAIN loading : Pending(c) # {} => loading[c]

----------------------------------------------------------------------------
(* C30 *)

\* C30: the active section is always one of the current role's sections, so a
\* supervisor is always on attendance; and a step that changes the role leaves
\* the active section at attendance for the supervisor, at dashboard for the
\* admin.
C30_RoleGating ==
    /\ [](userRole \in sidebarItems[activeSection])
    /\ [](userRole = "supervisor" => activeSection = "attendance")
    /\ [][userRole' # userRole =>
            activeSection' = IF userRole' = "supervisor" THEN "attendance" ELSE "dashboard"]_vars

\* the admin went to the students page and deleted a student there, and the
\* role was switched to supervisor afterwards
C30_Witness ==
    /\ userRole = "supervisor"
    /\ activeSection = "attendance"
    /\ \E p \in Slots : Done(p, "deleteStudent")

====
